---- MODULE Spec2Model ----
(***************************************************************************)
(* Verification model of the itmmti "Basics" library: bit primitives       *)
(* (BitsUtil.hpp), BitVec, WBitsVec, RankVec, SVec and StepCode.           *)
(*                                                                         *)
(* A 64-bit word is the set of its raised bit positions, a subset of       *)
(* 0..63: and is intersection, or is union, a shift moves the positions    *)
(* and drops those that leave the word.  A word array is a function from   *)
(* word index to word.  Small unsigned values are naturals.                *)
(***************************************************************************)
EXTENDS Integers, Sequences, FiniteSets, TLC

VARIABLES
  mem,      \* mvBits: the word memory both regions live in
  mv,       \* mvBits: the call that was made and its outcome
  rv,       \* RankVec under test
  rvEnv,    \* RankVec: the caller's bit pattern and the allocator's garbage
  rvOld,    \* RankVec: copy taken right before shorten
  sv,       \* SVec under test
  svEnv,    \* SVec: the appended sequence, the platform's shift behaviour
  svOld,    \* SVec: copy taken right before convert
  wv,       \* WBitsVec under test
  wvEnv,    \* WBitsVec: the values written, the allocator garbage, the move made
  wvOld,    \* WBitsVec: copy taken right before convert
  wb,       \* readWBits / writeWBits: the words, the write made and the value read back
  sc,       \* StepCode under test
  scEnv,    \* StepCode: the values appended, the allocator garbage, the splice made
  scOld,    \* StepCode: copy taken right before changeWCodesAndValPos
  cap,      \* BitVec, WBitsVec or RankVec under a sequence of size and capacity operations
  cp        \* copy and move: the source C1, the destination C2, what was done

vars ==
  <<mem, mv, rv, rvEnv, rvOld, sv, svEnv, svOld, wv, wvEnv, wvOld, wb, sc,
    scEnv, scOld, cap, cp>>

-----------------------------------------------------------------------------
(* Words *)

WordBits == 64
\* Stands for 2^64 - 1: the largest value, above every other value of the model.
UINT64_MAX == 2147483647

BitIdx == 0..(WordBits - 1)

\* TBL_LoSet[w]: the w low significant bits are raised.
TBL_LoSet(w) == 0..(w - 1)

UINTW_MAX(w) == TBL_LoSet(w)

NotW(x) == BitIdx \ x
AndW(x, y) == x \cap y
OrW(x, y) == x \cup y
\* x << k and x >> k for a shift count k in [0, 64).
ShlW(x, k) == {i + k : i \in {j \in x : j + k < WordBits}}
ShrW(x, k) == {i - k : i \in {j \in x : j >= k}}

cnt64(x) == Cardinality(x)

Min2(a, b) == IF a < b THEN a ELSE b
Max2(a, b) == IF a > b THEN a ELSE b

RECURSIVE Pow2(_)
Pow2(n) == IF n = 0 THEN 1 ELSE 2 * Pow2(n - 1)

\* The word holding the natural v (v < 2^31), and the natural a word holds.
ToWord(v) == {i \in 0..30 : (v \div Pow2(i)) % 2 = 1}
RECURSIVE FromWord(_)
FromWord(x) ==
  IF x = {} THEN 0
  ELSE LET i == CHOOSE j \in x : TRUE IN Pow2(i) + FromWord(x \ {i})

-----------------------------------------------------------------------------
(* Word arrays with an access record: st.m is the array, st.oob is raised  *)
(* by an access outside it, st.ok is lowered by a failed assertion.        *)

RdW(st, i) == IF i \in DOMAIN st.m THEN st.m[i] ELSE {}
Touch(st, i) == [st EXCEPT !.oob = @ \/ (i \notin DOMAIN st.m)]
WrW(st, i, v) ==
  IF i \in DOMAIN st.m THEN [st EXCEPT !.m[i] = v] ELSE [st EXCEPT !.oob = TRUE]
AssertW(st, c) == [st EXCEPT !.ok = @ /\ c]

-----------------------------------------------------------------------------
(* bits::mvBits and its four kernels.  src and tgt are pointers into one   *)
(* memory: sB and tB are the word indexes they point at.                   *)

mvBits_last_LR(st, tB, tgt_i, val, bitLen) ==
  LET s1 == AssertW(st, bitLen <= 64)
      mask == UINTW_MAX(bitLen)
      s2 == Touch(s1, tB + tgt_i)
  IN WrW(s2, tB + tgt_i, OrW(AndW(RdW(s2, tB + tgt_i), NotW(mask)), AndW(val, mask)))

RECURSIVE mvBitsLR_DiffOffs_loop(_, _, _, _, _, _, _, _, _)
mvBitsLR_DiffOffs_loop(st, sB, tB, src_i, tgt_i, val, bitLen, diff1, diff2) ==
  IF bitLen > 64
  THEN LET s1 == WrW(st, tB + tgt_i, val)
           bl == bitLen - 64
           s2 == Touch(s1, sB + src_i)
           v1 == ShrW(RdW(s2, sB + src_i), diff1)
       IN IF bl <= diff2
          THEN mvBits_last_LR(s2, tB, tgt_i + 1, v1, bl)
          ELSE LET s3 == Touch(s2, sB + src_i + 1)
                   v2 == OrW(v1, ShlW(RdW(s3, sB + src_i + 1), diff2))
               IN mvBitsLR_DiffOffs_loop(s3, sB, tB, src_i + 1, tgt_i + 1, v2, bl, diff1, diff2)
  ELSE mvBits_last_LR(st, tB, tgt_i, val, bitLen)

mvBitsLR_DiffOffs(st, sB, srcBitPos, tB, tgtBitPos, bitLen0) ==
  LET src_i == srcBitPos \div 64
      tgt_i == tgtBitPos \div 64
      srcOffset == srcBitPos % 64
      tgtOffset == tgtBitPos % 64
      s1 == Touch(Touch(st, sB + src_i), tB + tgt_i)
      val == OrW(ShlW(ShrW(RdW(s1, sB + src_i), srcOffset), tgtOffset),
                 AndW(RdW(s1, tB + tgt_i), UINTW_MAX(tgtOffset)))
      bitLen == bitLen0 + tgtOffset
  IN IF srcOffset > tgtOffset
     THEN LET diff1 == srcOffset - tgtOffset
              diff2 == 64 - diff1
          IN IF bitLen <= diff2
             THEN mvBits_last_LR(s1, tB, tgt_i, val, bitLen)
             ELSE LET s2 == Touch(s1, sB + src_i + 1)
                      v2 == OrW(val, ShlW(RdW(s2, sB + src_i + 1), diff2))
                  IN mvBitsLR_DiffOffs_loop(s2, sB, tB, src_i + 1, tgt_i, v2, bitLen, diff1, diff2)
     ELSE LET diff2 == tgtOffset - srcOffset
              diff1 == 64 - diff2
          IN mvBitsLR_DiffOffs_loop(s1, sB, tB, src_i, tgt_i, val, bitLen, diff1, diff2)

mvBits_last_RL(st, tB, tgt_i, val, bitLen) ==
  LET s1 == AssertW(st, bitLen <= 64)
      mask == UINTW_MAX(64 - bitLen)
      s2 == Touch(s1, tB + tgt_i)
  IN WrW(s2, tB + tgt_i, OrW(AndW(RdW(s2, tB + tgt_i), mask), AndW(val, NotW(mask))))

RECURSIVE mvBitsRL_DiffOffs_loop(_, _, _, _, _, _, _, _, _)
mvBitsRL_DiffOffs_loop(st, sB, tB, src_i, tgt_i, val, bitLen, diff1, diff2) ==
  IF bitLen > 64
  THEN LET s1 == WrW(st, tB + tgt_i, val)
           bl == bitLen - 64
           s2 == Touch(s1, sB + src_i)
           v1 == ShlW(RdW(s2, sB + src_i), diff1)
       IN IF bl <= diff2
          THEN mvBits_last_RL(s2, tB, tgt_i - 1, v1, bl)
          ELSE LET s3 == Touch(s2, sB + src_i - 1)
                   v2 == OrW(v1, ShrW(RdW(s3, sB + src_i - 1), diff2))
               IN mvBitsRL_DiffOffs_loop(s3, sB, tB, src_i - 1, tgt_i - 1, v2, bl, diff1, diff2)
  ELSE mvBits_last_RL(st, tB, tgt_i, val, bitLen)

mvBitsRL_DiffOffs(st, sB, srcBitPos, tB, tgtBitPos, bitLen0) ==
  LET s0 == AssertW(AssertW(st, srcBitPos > bitLen0), tgtBitPos > bitLen0)
      srcZero == (srcBitPos % 64 = 0)
      tgtZero == (~srcZero) /\ (tgtBitPos % 64 = 0)
      src_i == IF srcZero THEN (srcBitPos \div 64) - 1 ELSE srcBitPos \div 64
      tgt_i == IF tgtZero THEN (tgtBitPos \div 64) - 1 ELSE tgtBitPos \div 64
      srcOffset == IF srcZero THEN 64 ELSE srcBitPos % 64
      tgtOffset == IF tgtZero THEN 64 ELSE tgtBitPos % 64
      s1 == Touch(Touch(s0, tB + tgt_i), sB + src_i)
      val == AndW(RdW(s1, tB + tgt_i), NotW(UINTW_MAX(tgtOffset)))
      bitLen == bitLen0 + 64 - tgtOffset
      srcLo == AndW(RdW(s1, sB + src_i), UINTW_MAX(srcOffset))
  IN IF srcOffset > tgtOffset
     THEN LET diff2 == srcOffset - tgtOffset
              diff1 == 64 - diff2
              v2 == OrW(val, ShrW(srcLo, diff2))
          IN mvBitsRL_DiffOffs_loop(s1, sB, tB, src_i, tgt_i, v2, bitLen, diff1, diff2)
     ELSE LET diff1 == tgtOffset - srcOffset
              diff2 == 64 - diff1
              v2 == OrW(val, ShlW(srcLo, diff1))
          IN IF bitLen <= diff2
             THEN mvBits_last_RL(s1, tB, tgt_i, v2, bitLen)
             ELSE LET s2 == Touch(s1, sB + src_i - 1)
                      v3 == OrW(v2, ShrW(RdW(s2, sB + src_i - 1), diff2))
                  IN mvBitsRL_DiffOffs_loop(s2, sB, tB, src_i - 1, tgt_i, v3, bitLen, diff1, diff2)

RECURSIVE mvBitsLR_SameOffs_loop(_, _, _, _, _, _, _)
mvBitsLR_SameOffs_loop(st, sB, tB, src_i, tgt_i, val, bitLen) ==
  IF bitLen > 64
  THEN LET s1 == WrW(st, tB + tgt_i, val)
           s2 == Touch(s1, sB + src_i + 1)
       IN mvBitsLR_SameOffs_loop(s2, sB, tB, src_i + 1, tgt_i + 1,
                                 RdW(s2, sB + src_i + 1), bitLen - 64)
  ELSE mvBits_last_LR(st, tB, tgt_i, val, bitLen)

mvBitsLR_SameOffs(st, sB, srcBitPos, tB, tgtBitPos, bitLen0) ==
  LET s0 == AssertW(st, srcBitPos % 64 = tgtBitPos % 64)
      src_i == srcBitPos \div 64
      tgt_i == tgtBitPos \div 64
      offset == srcBitPos % 64
      mask1 == UINTW_MAX(offset)
      s1 == Touch(Touch(s0, tB + tgt_i), sB + src_i)
      val == OrW(AndW(RdW(s1, tB + tgt_i), mask1), AndW(RdW(s1, sB + src_i), NotW(mask1)))
  IN mvBitsLR_SameOffs_loop(s1, sB, tB, src_i, tgt_i, val, bitLen0 + offset)

RECURSIVE mvBitsRL_SameOffs_loop(_, _, _, _, _, _, _)
mvBitsRL_SameOffs_loop(st, sB, tB, src_i, tgt_i, val, bitLen) ==
  IF bitLen > 64
  THEN LET s1 == WrW(st, tB + tgt_i, val)
           s2 == Touch(s1, sB + src_i - 1)
       IN mvBitsRL_SameOffs_loop(s2, sB, tB, src_i - 1, tgt_i - 1,
                                 RdW(s2, sB + src_i - 1), bitLen - 64)
  ELSE mvBits_last_RL(st, tB, tgt_i, val, bitLen)

mvBitsRL_SameOffs(st, sB, srcBitPos, tB, tgtBitPos, bitLen0) ==
  LET s0 == AssertW(AssertW(AssertW(st, srcBitPos % 64 = tgtBitPos % 64),
                            srcBitPos > bitLen0), tgtBitPos > bitLen0)
      zero == (srcBitPos % 64 = 0)
      offset == IF zero THEN 64 ELSE srcBitPos % 64
      src_i == IF zero THEN (srcBitPos \div 64) - 1 ELSE srcBitPos \div 64
      tgt_i == IF zero THEN (tgtBitPos \div 64) - 1 ELSE tgtBitPos \div 64
      mask1 == UINTW_MAX(offset)
      s1 == Touch(Touch(s0, sB + src_i), tB + tgt_i)
      val == OrW(AndW(RdW(s1, sB + src_i), mask1), AndW(RdW(s1, tB + tgt_i), NotW(mask1)))
  IN mvBitsRL_SameOffs_loop(s1, sB, tB, src_i, tgt_i, val, bitLen0 + 64 - offset)

mvBitsLR(st, sB, srcBitPos, tB, tgtBitPos, bitLen) ==
  IF srcBitPos % 64 # tgtBitPos % 64
  THEN mvBitsLR_DiffOffs(st, sB, srcBitPos, tB, tgtBitPos, bitLen)
  ELSE mvBitsLR_SameOffs(st, sB, srcBitPos, tB, tgtBitPos, bitLen)

mvBitsRL(st, sB, srcBitPos, tB, tgtBitPos, bitLen) ==
  IF srcBitPos % 64 # tgtBitPos % 64
  THEN mvBitsRL_DiffOffs(st, sB, srcBitPos, tB, tgtBitPos, bitLen)
  ELSE mvBitsRL_SameOffs(st, sB, srcBitPos, tB, tgtBitPos, bitLen)

\* mvBits that hands the right-to-left kernel the beginning of the source
\* region instead of its end.
mvBits_srcEndForgotten(st, sB, srcBitPos, tB, tgtBitPos, bitLen) ==
  IF srcBitPos >= tgtBitPos
  THEN mvBitsLR(st, sB, srcBitPos, tB, tgtBitPos, bitLen)
  ELSE mvBitsRL(st, sB, srcBitPos, tB, tgtBitPos + bitLen, bitLen)

mvBits(st, sB, srcBitPos, tB, tgtBitPos, bitLen) ==
  IF srcBitPos >= tgtBitPos
  THEN mvBitsLR(st, sB, srcBitPos, tB, tgtBitPos, bitLen)
  ELSE mvBitsRL(st, sB, srcBitPos + bitLen, tB, tgtBitPos + bitLen, bitLen)

-----------------------------------------------------------------------------
(* Specification SpecMv: one call of mvBits on a memory of MemWords words. *)

MemWords == 10
MaxBitLen == 130

\* The lengths tried: around the word boundaries, and the longest.
MvBitLens == {0, 1, 2, 60, 63, 64, 65, 127, 128, MaxBitLen}

\* The word indexes src and tgt may point at: the same word, one or two
\* words apart in either order, and far apart (disjoint regions).
MvBases == {<<0, 0>>, <<1, 0>>, <<0, 1>>, <<2, 0>>, <<0, 2>>, <<0, 5>>, <<5, 0>>}

\* Two memory contents, each the complement of the other, irregular enough
\* that a bit copied from a wrong place shows.
MvPattern(p) ==
  [i \in 0..(MemWords - 1) |->
     {j \in BitIdx :
        (((i * 64 + j) * 37 + ((i * 64 + j) \div 5) * 11 + i * 3) % 101) % 2 = p}]

\* The offsets tried: both ends of the word, its middle, and values between.
MvOffs == {0, 1, 2, 4, 5, 31, 32, 33, 60, 62, 63}

\* The memory of the documented example: words[0] = 0xAAAAAAAAAAAAAAAA (the
\* odd bit positions raised), every other word 0.
MvExample ==
  [i \in 0..(MemWords - 1) |-> IF i = 0 THEN {j \in BitIdx : j % 2 = 1} ELSE {}]

MvIdle == [phase |-> "idle"]
Unused == [phase |-> "unused"]

InitMv ==
  /\ mem \in {MvPattern(0), MvPattern(1), MvExample}
  /\ mv = MvIdle
  /\ rv = Unused /\ rvEnv = Unused /\ rvOld = Unused
  /\ sv = Unused /\ svEnv = Unused /\ svOld = Unused
  /\ wv = Unused /\ wvEnv = Unused /\ wvOld = Unused
  /\ wb = Unused
  /\ sc = Unused /\ scEnv = Unused /\ scOld = Unused
  /\ cap = Unused
  /\ cp = Unused

MvBitsCall ==
  /\ mv.phase = "idle"
  /\ \E b \in MvBases, srcOff \in MvOffs, tgtOff \in MvOffs, bitLen \in MvBitLens :
       LET r == mvBits([m |-> mem, oob |-> FALSE, ok |-> TRUE],
                       b[1], srcOff, b[2], tgtOff, bitLen)
       IN /\ mem' = r.m
          /\ mv' = [phase |-> "done", sB |-> b[1], srcOff |-> srcOff,
                    tB |-> b[2], tgtOff |-> tgtOff, bitLen |-> bitLen,
                    mem0 |-> mem, ok |-> r.ok, oob |-> r.oob]
  /\ UNCHANGED <<rv, rvEnv, rvOld, sv, svEnv, svOld, wv, wvEnv, wvOld, wb, sc, scEnv, scOld, cap, cp>>

\* The caller restores the memory and is ready for another call.
MvRestore ==
  /\ mv.phase = "done"
  /\ mem' = mv.mem0
  /\ mv' = MvIdle
  /\ UNCHANGED <<rv, rvEnv, rvOld, sv, svEnv, svOld, wv, wvEnv, wvOld, wb, sc, scEnv, scOld, cap, cp>>

NextMv == MvBitsCall \/ MvRestore

SpecMv == InitMv /\ [][NextMv]_vars

\* Bit k of the bit stream that starts at word index base.
BitAt(m, base, k) == (k % 64) \in m[base + (k \div 64)]

\* Absolute bit positions of the region of n bits at (base, off).
Region(base, off, n) == (64 * base + off)..(64 * base + off + n - 1)

MvDestIsSource ==
  \A k \in 0..(mv.bitLen - 1) :
     BitAt(mem, mv.tB, mv.tgtOff + k) = BitAt(mv.mem0, mv.sB, mv.srcOff + k)

\* The bits of word i that lie outside the destination region are unchanged.
MvFrame ==
  \A i \in 0..(MemWords - 1) :
     LET out == {j \in BitIdx : (64 * i + j) \notin Region(mv.tB, mv.tgtOff, mv.bitLen)}
     IN mem[i] \cap out = mv.mem0[i] \cap out

\* C1: mvBits with bitLen >= 1, whatever the offsets and the relative
\* position of the regions, runs to its end (no assertion of the code
\* fails), the destination then holds the original source bits and no bit
\* outside the destination has changed.
C1_MvBitsIsReferenceCopy ==
  (mv.phase = "done" /\ mv.bitLen >= 1) => (mv.ok /\ MvDestIsSource /\ MvFrame)

\* C17: mvBits with bitLen = 0, whatever the source and target positions
\* (the right-to-left kernels included), runs to its end with no assertion
\* of the code failing and leaves every word as it was.
C17_MvBitsZeroLenIsNoOp ==
  (mv.phase = "done" /\ mv.bitLen = 0) => (mv.ok /\ mem = mv.mem0)

\* The documented call: words = [0xAAAAAAAAAAAAAAAA, 0x0],
\* mvBits(words, 0, words, 4, 60).
MvExampleDone ==
  /\ mv.phase = "done"
  /\ mv.mem0 = MvExample
  /\ mv.sB = 0 /\ mv.tB = 0
  /\ mv.srcOff = 0 /\ mv.tgtOff = 4 /\ mv.bitLen = 60

-----------------------------------------------------------------------------
(* basic_search::partition_idx and the remaining primitives of BitsUtil.   *)

SetMin(S) == CHOOSE x \in S : \A y \in S : x <= y
SetMax(S) == CHOOSE x \in S : \A y \in S : y <= x

\* The smallest i in [lb, ub) that satisfies the predicate, ub when there is
\* none.  The predicate is passed as a function func from [lb, ub) to BOOLEAN.
partition_idx(lb, ub, func) ==
  IF \E i \in lb..(ub - 1) : func[i]
  THEN SetMin({i \in lb..(ub - 1) : func[i]})
  ELSE ub

\* TBL_Sel8[(rank << 8) + v] for a byte v (a subset of 0..7): the position
\* of the rank-th 1 of v; the entries of rank 0 are the popcount table
\* TBL_Cnt8.  An entry that no 1 answers reads 8.
TBL_Sel8(rank, v) ==
  IF rank = 0 THEN Cardinality(v)
  ELSE IF rank <= Cardinality(v)
       THEN CHOOSE b \in v : Cardinality({c \in v : c <= b}) = rank
       ELSE 8

TBL_Cnt8(v) == TBL_Sel8(0, v)

RECURSIVE sel64_loop(_, _, _)
sel64_loop(word, rank, j) ==
  IF j < 7
  THEN LET x == AndW(word, 0..7)
           c == TBL_Cnt8(x)
       IN IF rank <= c
          THEN j * 8 + TBL_Sel8(rank, x)
          ELSE sel64_loop(ShrW(word, 8), rank - c, j + 1)
  ELSE 56 + TBL_Sel8(rank, AndW(word, 0..7))

sel64(word, rank) == sel64_loop(word, rank, 0)

RECURSIVE sel_0(_, _, _)
sel_0(array, i, rank) ==
  LET cnt == cnt64(NotW(array[i]))
  IN IF rank > cnt
     THEN 64 + sel_0(array, i + 1, rank - cnt)
     ELSE sel64(NotW(array[i]), rank)

RECURSIVE sel_1(_, _, _)
sel_1(array, i, rank) ==
  LET cnt == cnt64(array[i])
  IN IF rank > cnt
     THEN 64 + sel_1(array, i + 1, rank - cnt)
     ELSE sel64(array[i], rank)

RECURSIVE cnt_0(_, _, _)
cnt_0(array, i, bitPos) ==
  IF bitPos > 63
  THEN cnt64(NotW(array[i])) + cnt_0(array, i + 1, bitPos - 64)
  ELSE cnt64(AndW(NotW(array[i]), UINTW_MAX(bitPos + 1)))

RECURSIVE cnt_1(_, _, _)
cnt_1(array, i, bitPos) ==
  IF bitPos > 63
  THEN cnt64(array[i]) + cnt_1(array, i + 1, bitPos - 64)
  ELSE cnt64(AndW(array[i], UINTW_MAX(bitPos + 1)))

\* The backward scan shared by pred_0 and pred_1: word is what is left of
\* array[idx - i] after masking (and complementing, for pred_0).
RECURSIVE pred_scan(_, _, _, _, _, _)
pred_scan(array, idx, numWords, i, word, neg) ==
  IF word # {}
  THEN (idx - i) * 64 + SetMax(word)
  ELSE IF i + 1 >= numWords
       THEN UINT64_MAX
       ELSE pred_scan(array, idx, numWords, i + 1,
                      IF neg THEN NotW(array[idx - (i + 1)]) ELSE array[idx - (i + 1)], neg)

bits_pred_0(array, bitPos, numWords) ==
  LET idx == bitPos \div 64
  IN pred_scan(array, idx, numWords, 0,
               AndW(NotW(array[idx]), UINTW_MAX((bitPos % 64) + 1)), TRUE)

bits_pred_1(array, bitPos, numWords) ==
  LET idx == bitPos \div 64
  IN pred_scan(array, idx, numWords, 0,
               AndW(array[idx], UINTW_MAX((bitPos % 64) + 1)), FALSE)

RECURSIVE succ_scan(_, _, _, _, _, _)
succ_scan(array, idx, numWords, i, word, neg) ==
  IF word # {}
  THEN (idx + i) * 64 + SetMin(word)
  ELSE IF i + 1 >= numWords
       THEN UINT64_MAX
       ELSE succ_scan(array, idx, numWords, i + 1,
                      IF neg THEN NotW(array[idx + i + 1]) ELSE array[idx + i + 1], neg)

bits_succ_0(array, bitPos, numWords) ==
  LET idx == bitPos \div 64
  IN succ_scan(array, idx, numWords, 0,
               AndW(NotW(array[idx]), NotW(UINTW_MAX(bitPos % 64))), TRUE)

bits_succ_1(array, bitPos, numWords) ==
  LET idx == bitPos \div 64
  IN succ_scan(array, idx, numWords, 0,
               AndW(array[idx], NotW(UINTW_MAX(bitPos % 64))), FALSE)

\* readWBits / writeWBits on words; mask is UINTW_MAX(w).
readWBits(array, bitPos, w, mask) ==
  LET idx == bitPos \div 64
      offset == bitPos % 64
      loBits == 64 - offset
      lo == ShrW(array[idx], offset)
  IN AndW(IF loBits < w THEN OrW(lo, ShlW(array[idx + 1], loBits)) ELSE lo, mask)

readWBits_S(array, bitPos, mask) ==
  AndW(ShrW(array[bitPos \div 64], bitPos % 64), mask)

\* The shift counts readWBits and writeWBits execute: offset always, loBits
\* only when the region runs into the next word.
WBits_shifts(bitPos, w) ==
  LET offset == bitPos % 64
      loBits == 64 - offset
  IN {offset} \cup (IF loBits < w THEN {loBits} ELSE {})

\* writeWBits that ors the value in without clearing the region first.
writeWBits_noClear(val, array, bitPos, w, mask) ==
  LET idx == bitPos \div 64
      offset == bitPos % 64
      loBits == 64 - offset
      a1 == [array EXCEPT ![idx] = OrW(@, ShlW(val, offset))]
  IN IF loBits < w
     THEN [a1 EXCEPT ![idx + 1] = OrW(@, ShrW(val, loBits))]
     ELSE a1

writeWBits(val, array, bitPos, w, mask) ==
  LET idx == bitPos \div 64
      offset == bitPos % 64
      loBits == 64 - offset
      a1 == [array EXCEPT ![idx] = OrW(AndW(@, NotW(ShlW(mask, offset))), ShlW(val, offset))]
  IN IF loBits < w
     THEN [a1 EXCEPT ![idx + 1] = OrW(AndW(@, NotW(ShrW(mask, loBits))), ShrW(val, loBits))]
     ELSE a1

writeWBits_S(val, array, bitPos, mask) ==
  [array EXCEPT ![bitPos \div 64] =
     OrW(AndW(@, NotW(ShlW(mask, bitPos % 64))), ShlW(val, bitPos % 64))]

\* realloc: the words kept are those of the old block, the new ones hold
\* whatever the allocator returns (garbage g).
Realloc(array, n, g) ==
  [i \in 0..(n - 1) |-> IF i \in DOMAIN array THEN array[i] ELSE g]

NullArray == [i \in {} |-> {}]

-----------------------------------------------------------------------------
(* BitVec: [array, capacity, size].  g is what the allocator hands out:    *)
(* g.w fills new words, g.c fills new counters.                            *)

BitVec_new == [array |-> NullArray, capacity |-> 0, size |-> 0]

\* changeCapacity that takes the given capacity without looking at the size.
BitVec_changeCapacity_ignoresSize(bv, givenCapacity, g) ==
  IF bv.capacity # givenCapacity
  THEN LET newLen == (givenCapacity + 63) \div 64
       IN IF newLen > 0
          THEN [bv EXCEPT !.array = Realloc(bv.array, newLen, g.w),
                          !.capacity = newLen * 64]
          ELSE [bv EXCEPT !.array = NullArray, !.capacity = 0]
  ELSE bv

BitVec_changeCapacity(bv, givenCapacity, g) ==
  IF bv.capacity # givenCapacity
  THEN LET newLen == (Max2(bv.size, givenCapacity) + 63) \div 64
       IN IF newLen > 0
          THEN [bv EXCEPT !.array = Realloc(bv.array, newLen, g.w),
                          !.capacity = newLen * 64]
          ELSE [bv EXCEPT !.array = NullArray, !.capacity = 0]
  ELSE bv

BitVec_resize(bv, newSize, g) ==
  LET b1 == IF newSize > bv.capacity THEN BitVec_changeCapacity(bv, newSize, g) ELSE bv
  IN [b1 EXCEPT !.size = newSize]

BitVec_clear(bv) == [bv EXCEPT !.size = 0]

BitVec_writeBit(bv, val, bitPos) ==
  [bv EXCEPT !.array = writeWBits_S(IF val THEN {0} ELSE {}, bv.array, bitPos, UINTW_MAX(1))]

BitVec_readBit(bv, bitPos) ==
  IF readWBits_S(bv.array, bitPos, UINTW_MAX(1)) = {} THEN 0 ELSE 1

-----------------------------------------------------------------------------
(* RankVec<BSIZE_T, BSIZE_M>: [bv, blockT, blockM].                        *)

BSIZE_M == 64
BSIZE_T == 4 * BSIZE_M

NullCounters == [i \in {} |-> 0]

ReallocCounters(block, n, g) ==
  [i \in 0..(n - 1) |-> IF i \in DOMAIN block THEN block[i] ELSE g.c]

RankVec_changeCapacity(r, givenCapacity, g) ==
  IF r.bv.capacity # givenCapacity
  THEN LET bv1 == BitVec_changeCapacity(r.bv, givenCapacity, g)
           newCapacity == bv1.capacity
           lenT == (newCapacity + BSIZE_T - 1) \div BSIZE_T
           lenM == (newCapacity + BSIZE_M - 1) \div BSIZE_M - newCapacity \div BSIZE_T
       IN IF newCapacity > 0
          THEN [bv |-> bv1,
                blockT |-> ReallocCounters(r.blockT, lenT, g),
                blockM |-> ReallocCounters(r.blockM, lenM, g)]
          ELSE [bv |-> bv1, blockT |-> NullCounters, blockM |-> NullCounters]
  ELSE r

RankVec_new(capacity, g) ==
  RankVec_changeCapacity([bv |-> BitVec_new, blockT |-> NullCounters,
                          blockM |-> NullCounters], capacity, g)

RankVec_clear(r, g) == [r EXCEPT !.bv = BitVec_resize(r.bv, 0, g)]

RankVec_size(r) == r.bv.size
RankVec_capacity(r) == r.bv.capacity
RankVec_readBit(r, bitPos) == BitVec_readBit(r.bv, bitPos)

\* blockM_ holds uint16_t.
U16(x) == x % 65536

\* appendBit that starts a middle block inside a top block without taking
\* over the count of the block before it.
appendBit_unseededM(r, val, g) ==
  LET pos == r.bv.size
      bv1 == BitVec_writeBit(BitVec_resize(r.bv, pos + 1, g), val, pos)
      b == IF val THEN 1 ELSE 0
      idxT == pos \div BSIZE_T
      remT == pos % BSIZE_T
      idxM == (pos \div BSIZE_M) - idxT
      \* the seeding at a block boundary
      T1 == IF pos % BSIZE_M = 0 /\ remT = 0
            THEN [r.blockT EXCEPT ![idxT] = r.blockT[idxT - 1]]
            ELSE r.blockT
      M1 == IF pos % BSIZE_M = 0
            THEN IF remT = 0
                 THEN [r.blockM EXCEPT ![idxM] = 0]
                 ELSE r.blockM
            ELSE r.blockM
  IN IF pos = 0
     THEN [bv |-> bv1,
           blockT |-> [r.blockT EXCEPT ![0] = b],
           blockM |-> [r.blockM EXCEPT ![0] = b]]
     ELSE [bv |-> bv1,
           blockT |-> [T1 EXCEPT ![idxT] = @ + b],
           blockM |-> IF remT < BSIZE_T - BSIZE_M
                      THEN [M1 EXCEPT ![idxM] = U16(@ + b)]
                      ELSE M1]

appendBit(r, val, g) ==
  LET pos == r.bv.size
      bv1 == BitVec_writeBit(BitVec_resize(r.bv, pos + 1, g), val, pos)
      b == IF val THEN 1 ELSE 0
      idxT == pos \div BSIZE_T
      remT == pos % BSIZE_T
      idxM == (pos \div BSIZE_M) - idxT
      \* the seeding at a block boundary
      T1 == IF pos % BSIZE_M = 0 /\ remT = 0
            THEN [r.blockT EXCEPT ![idxT] = r.blockT[idxT - 1]]
            ELSE r.blockT
      M1 == IF pos % BSIZE_M = 0
            THEN IF remT = 0
                 THEN [r.blockM EXCEPT ![idxM] = 0]
                 ELSE IF remT < BSIZE_T - BSIZE_M
                      THEN [r.blockM EXCEPT ![idxM] = r.blockM[idxM - 1]]
                      ELSE r.blockM
            ELSE r.blockM
  IN IF pos = 0
     THEN [bv |-> bv1,
           blockT |-> [r.blockT EXCEPT ![0] = b],
           blockM |-> [r.blockM EXCEPT ![0] = b]]
     ELSE [bv |-> bv1,
           blockT |-> [T1 EXCEPT ![idxT] = @ + b],
           blockM |-> IF remT < BSIZE_T - BSIZE_M
                      THEN [M1 EXCEPT ![idxM] = U16(@ + b)]
                      ELSE M1]

\* shorten that resizes the bit vector and leaves the counters as they are.
shorten_staleCounters(r, givenSize, g) ==
  IF givenSize >= r.bv.size THEN r
  ELSE [r EXCEPT !.bv = BitVec_resize(r.bv, givenSize, g)]

\* shorten with the bit vector resized to givenSize + 1: the given size
\* taken for the last position that is kept.
shorten_keepsOneMore(r, givenSize, g) ==
  IF givenSize >= r.bv.size THEN r
  ELSE LET bv1 == BitVec_resize(r.bv, givenSize + 1, g)
       IN IF givenSize = 0 THEN [r EXCEPT !.bv = bv1]
          ELSE LET pos == givenSize - 1
                   idxT == pos \div BSIZE_T
                   remT == pos % BSIZE_T
                   idxM == (pos \div BSIZE_M) - idxT
                   onesLastBlockM ==
                     U16(cnt_1(bv1.array, ((pos \div BSIZE_M) * BSIZE_M) \div 64, pos % BSIZE_M))
                   onesLastBlockT ==
                     IF remT >= BSIZE_M
                     THEN U16(r.blockM[idxM - 1] + onesLastBlockM)
                     ELSE onesLastBlockM
                   M1 == IF remT < BSIZE_T - BSIZE_M
                         THEN [r.blockM EXCEPT ![idxM] = onesLastBlockT]
                         ELSE r.blockM
                   T1 == [r.blockT EXCEPT ![idxT] =
                            IF idxT # 0 THEN r.blockT[idxT - 1] + onesLastBlockT
                            ELSE onesLastBlockT]
               IN [bv |-> bv1, blockT |-> T1, blockM |-> M1]

shorten(r, givenSize, g) ==
  IF givenSize >= r.bv.size THEN r
  ELSE LET bv1 == BitVec_resize(r.bv, givenSize, g)
       IN IF givenSize = 0 THEN [r EXCEPT !.bv = bv1]
          ELSE LET pos == givenSize - 1
                   idxT == pos \div BSIZE_T
                   remT == pos % BSIZE_T
                   idxM == (pos \div BSIZE_M) - idxT
                   onesLastBlockM ==
                     U16(cnt_1(bv1.array, ((pos \div BSIZE_M) * BSIZE_M) \div 64, pos % BSIZE_M))
                   onesLastBlockT ==
                     IF remT >= BSIZE_M
                     THEN U16(r.blockM[idxM - 1] + onesLastBlockM)
                     ELSE onesLastBlockM
                   M1 == IF remT < BSIZE_T - BSIZE_M
                         THEN [r.blockM EXCEPT ![idxM] = onesLastBlockT]
                         ELSE r.blockM
                   T1 == [r.blockT EXCEPT ![idxT] =
                            IF idxT # 0 THEN r.blockT[idxT - 1] + onesLastBlockT
                            ELSE onesLastBlockT]
               IN [bv |-> bv1, blockT |-> T1, blockM |-> M1]

getNum_1(r) == IF r.bv.size # 0 THEN r.blockT[(r.bv.size - 1) \div BSIZE_T] ELSE 0
getNum_0(r) == r.bv.size - getNum_1(r)

rank_0(r, pos) ==
  LET idxT == pos \div BSIZE_T
      remT == pos % BSIZE_T
      idxM == (pos \div BSIZE_M) - idxT
      rkT == IF idxT # 0 THEN (idxT * BSIZE_T) - r.blockT[idxT - 1] ELSE 0
      rkM == IF remT >= BSIZE_M
             THEN ((remT \div BSIZE_M) * BSIZE_M) - r.blockM[idxM - 1]
             ELSE 0
  IN rkT + rkM + cnt_0(r.bv.array, ((pos \div BSIZE_M) * BSIZE_M) \div 64, pos % BSIZE_M)

\* rank_1 that adds the middle-block counter only past the first position
\* of the second middle block.
rank_1_strictM(r, pos) ==
  LET idxT == pos \div BSIZE_T
      remT == pos % BSIZE_T
      idxM == (pos \div BSIZE_M) - idxT
      rkT == IF idxT # 0 THEN r.blockT[idxT - 1] ELSE 0
      rkM == IF remT > BSIZE_M THEN r.blockM[idxM - 1] ELSE 0
  IN rkT + rkM + cnt_1(r.bv.array, ((pos \div BSIZE_M) * BSIZE_M) \div 64, pos % BSIZE_M)

rank_1(r, pos) ==
  LET idxT == pos \div BSIZE_T
      remT == pos % BSIZE_T
      idxM == (pos \div BSIZE_M) - idxT
      rkT == IF idxT # 0 THEN r.blockT[idxT - 1] ELSE 0
      rkM == IF remT >= BSIZE_M THEN r.blockM[idxM - 1] ELSE 0
  IN rkT + rkM + cnt_1(r.bv.array, ((pos \div BSIZE_M) * BSIZE_M) \div 64, pos % BSIZE_M)

RECURSIVE select_0_scanM(_, _, _, _)
select_0_scanM(r, idxM, rank, i) ==
  IF i < (BSIZE_T \div BSIZE_M) - 1 /\ BSIZE_M * (i + 1) - r.blockM[idxM + i] < rank
  THEN select_0_scanM(r, idxM, rank, i + 1)
  ELSE i

select_0(r, rank0) ==
  LET idxT == partition_idx(0, ((r.bv.size - 1) \div BSIZE_T) + 1,
                            [i \in 0..((r.bv.size - 1) \div BSIZE_T) |->
                               (i + 1) * BSIZE_T - r.blockT[i] >= rank0])
      posT == idxT * BSIZE_T
      rank1 == rank0 - (IF idxT > 0 THEN BSIZE_T * idxT - r.blockT[idxT - 1] ELSE 0)
      idxM == (posT \div BSIZE_M) - idxT
      i == select_0_scanM(r, idxM, rank1, 0)
      rank2 == rank1 - (IF i > 0 THEN BSIZE_M * i - r.blockM[idxM + i - 1] ELSE 0)
      posM == posT + i * BSIZE_M
  IN posM + sel_0(r.bv.array, posM \div 64, rank2)

RECURSIVE select_1_scanM(_, _, _, _)
select_1_scanM(r, idxM, rank, i) ==
  IF i < (BSIZE_T \div BSIZE_M) - 1 /\ r.blockM[idxM + i] < rank
  THEN select_1_scanM(r, idxM, rank, i + 1)
  ELSE i

\* select_1 that forgets to scale the middle-block index by BSIZE_M.
select_1_unscaled(r, rank0) ==
  LET idxT == partition_idx(0, ((r.bv.size - 1) \div BSIZE_T) + 1,
                            [i \in 0..((r.bv.size - 1) \div BSIZE_T) |->
                               r.blockT[i] >= rank0])
      posT == idxT * BSIZE_T
      rank1 == rank0 - (IF idxT > 0 THEN r.blockT[idxT - 1] ELSE 0)
      idxM == (posT \div BSIZE_M) - idxT
      i == select_1_scanM(r, idxM, rank1, 0)
      rank2 == rank1 - (IF i > 0 THEN r.blockM[idxM + i - 1] ELSE 0)
      posM == posT + i
  IN posM + sel_1(r.bv.array, posM \div 64, rank2)

select_1(r, rank0) ==
  LET idxT == partition_idx(0, ((r.bv.size - 1) \div BSIZE_T) + 1,
                            [i \in 0..((r.bv.size - 1) \div BSIZE_T) |->
                               r.blockT[i] >= rank0])
      posT == idxT * BSIZE_T
      rank1 == rank0 - (IF idxT > 0 THEN r.blockT[idxT - 1] ELSE 0)
      idxM == (posT \div BSIZE_M) - idxT
      i == select_1_scanM(r, idxM, rank1, 0)
      rank2 == rank1 - (IF i > 0 THEN r.blockM[idxM + i - 1] ELSE 0)
      posM == posT + i * BSIZE_M
  IN posM + sel_1(r.bv.array, posM \div 64, rank2)

pred_0(r, val0) ==
  LET size == r.bv.size
      val == IF val0 >= size THEN size - 1 ELSE val0
      ans == bits_pred_0(r.bv.array, val, Min2(2, 1 + val \div 64))
      rk == rank_0(r, val)
  IN IF size = 0 THEN UINT64_MAX
     ELSE IF ans # UINT64_MAX THEN ans
     ELSE IF rk > 0 THEN select_0(r, rk) ELSE UINT64_MAX

pred_1(r, val0) ==
  LET size == r.bv.size
      val == IF val0 >= size THEN size - 1 ELSE val0
      ans == bits_pred_1(r.bv.array, val, Min2(2, 1 + val \div 64))
      rk == rank_1(r, val)
  IN IF size = 0 THEN UINT64_MAX
     ELSE IF ans # UINT64_MAX THEN ans
     ELSE IF rk > 0 THEN select_1(r, rk) ELSE UINT64_MAX

succ_0(r, val) ==
  LET size == r.bv.size
      ans == bits_succ_0(r.bv.array, val, Min2(2, 1 + (size - 1) \div 64 - val \div 64))
      rk == rank_0(r, val)
  IN IF val >= size THEN UINT64_MAX
     ELSE IF ans < size THEN ans
     ELSE IF rk < getNum_0(r) THEN select_0(r, rk + 1) ELSE UINT64_MAX

\* succ_1 that takes any hit of the word scan, live or not.
succ_1_anyHit(r, val) ==
  LET size == r.bv.size
      ans == bits_succ_1(r.bv.array, val, Min2(2, 1 + (size - 1) \div 64 - val \div 64))
      rk == rank_1(r, val)
  IN IF val >= size THEN UINT64_MAX
     ELSE IF ans # UINT64_MAX THEN ans
     ELSE IF rk < getNum_1(r) THEN select_1(r, rk + 1) ELSE UINT64_MAX

succ_1(r, val) ==
  LET size == r.bv.size
      ans == bits_succ_1(r.bv.array, val, Min2(2, 1 + (size - 1) \div 64 - val \div 64))
      rk == rank_1(r, val)
  IN IF val >= size THEN UINT64_MAX
     ELSE IF ans < size THEN ans
     ELSE IF rk < getNum_1(r) THEN select_1(r, rk + 1) ELSE UINT64_MAX

-----------------------------------------------------------------------------
(* Specification SpecRv: a RankVec grown bit by bit by a caller that       *)
(* reserves as the tests do, shortened once, and grown again.              *)

MaxRvSize == 280
MaxRegrow == 3
RvInitCapacity == 64

\* What the allocator hands out in new words and new counters.
RvGarbage == {[w |-> {}, c |-> 0], [w |-> BitIdx, c |-> 50000]}

RvPatterns == 1..3

\* The bit the caller appends at position i.
PatBit(p, i) ==
  CASE p = 1 -> (i % 3 = 2)
    [] p = 2 -> (i % 135 = 130)
    [] OTHER -> (i % 135 # 130)

\* The bit at position i of the sequence appended so far: the pattern, and
\* its complement from the cut on once the vector has been shortened.
RvBit(i) ==
  IF rvEnv.cut >= 0 /\ i >= rvEnv.cut
  THEN ~PatBit(rvEnv.pat, i)
  ELSE PatBit(rvEnv.pat, i)

\* The sizes the caller shortens to.
RvCuts == {0, 1, 64, 65, 192, 193, 255, 256, 257, MaxRvSize}

InitRv ==
  /\ \E p \in RvPatterns, g \in RvGarbage :
       /\ rvEnv = [pat |-> p, g |-> g, cut |-> -1]
       /\ rv = RankVec_new(RvInitCapacity, g)
  /\ rvOld = Unused
  /\ mem = Unused /\ mv = Unused
  /\ sv = Unused /\ svEnv = Unused /\ svOld = Unused
  /\ wv = Unused /\ wvEnv = Unused /\ wvOld = Unused
  /\ wb = Unused
  /\ sc = Unused /\ scEnv = Unused /\ scOld = Unused
  /\ cap = Unused
  /\ cp = Unused

RvLimit == IF rvEnv.cut >= 0 THEN Min2(MaxRvSize, rvEnv.cut + MaxRegrow) ELSE MaxRvSize

RvAppendBit ==
  /\ RankVec_size(rv) < RankVec_capacity(rv)
  /\ RankVec_size(rv) < RvLimit
  /\ rv' = appendBit(rv, RvBit(RankVec_size(rv)), rvEnv.g)
  /\ UNCHANGED <<mem, mv, rvEnv, rvOld, sv, svEnv, svOld, wv, wvEnv, wvOld, wb, sc, scEnv, scOld, cap, cp>>

\* The caller reserves "needed size * 1.5" when the vector is full.
RvReserve ==
  /\ RankVec_size(rv) = RankVec_capacity(rv)
  /\ RankVec_size(rv) < RvLimit
  /\ rv' = RankVec_changeCapacity(rv, ((RankVec_size(rv) + 1) * 3) \div 2, rvEnv.g)
  /\ UNCHANGED <<mem, mv, rvEnv, rvOld, sv, svEnv, svOld, wv, wvEnv, wvOld, wb, sc, scEnv, scOld, cap, cp>>

RvShorten ==
  /\ rvEnv.cut < 0
  /\ RankVec_size(rv) = MaxRvSize
  /\ \E n \in RvCuts :
       /\ rv' = shorten(rv, n, rvEnv.g)
       /\ rvEnv' = [rvEnv EXCEPT !.cut = n]
  /\ rvOld' = rv
  /\ UNCHANGED <<mem, mv, sv, svEnv, svOld, wv, wvEnv, wvOld, wb, sc, scEnv, scOld, cap, cp>>

NextRv == RvAppendBit \/ RvReserve \/ RvShorten

SpecRv == InitRv /\ [][NextRv]_vars

\* C3: rank_1(pos) is the number of 1-bits and rank_0(pos) the number of
\* 0-bits appended at positions [0, pos]; they add up to pos + 1.
C3_RankCountsBits ==
  \A pos \in 0..(RankVec_size(rv) - 1) :
     /\ rank_1(rv, pos) = (IF pos = 0 THEN 0 ELSE rank_1(rv, pos - 1))
                            + (IF RvBit(pos) THEN 1 ELSE 0)
     /\ rank_0(rv, pos) = (IF pos = 0 THEN 0 ELSE rank_0(rv, pos - 1))
                            + (IF RvBit(pos) THEN 0 ELSE 1)
     /\ rank_1(rv, pos) + rank_0(rv, pos) = pos + 1

\* A vector grown by appendBit alone past a top block, with both bit values
\* appended after it.
C3_Witness ==
  /\ rv # Unused /\ rvEnv.cut < 0
  /\ RankVec_size(rv) = BSIZE_T + 6
  /\ rank_1(rv, RankVec_size(rv) - 1) > rank_1(rv, BSIZE_T - 1)
  /\ rank_0(rv, RankVec_size(rv) - 1) > rank_0(rv, BSIZE_T - 1)

\* C2: select_b(r) is a live position that holds b and has rank_b equal to
\* r, for every r in [1, num_b] and both bit values b.
C2_RankOfSelect ==
  /\ \A r \in 1..getNum_1(rv) :
        LET p == select_1(rv, r)
        IN /\ p < RankVec_size(rv)
           /\ rank_1(rv, p) = r
           /\ RankVec_readBit(rv, p) = 1
           /\ RvBit(p)
  /\ \A r \in 1..getNum_0(rv) :
        LET p == select_0(rv, r)
        IN /\ p < RankVec_size(rv)
           /\ rank_0(rv, p) = r
           /\ RankVec_readBit(rv, p) = 0
           /\ ~RvBit(p)

\* A vector whose last 1 and last 0 are both selected in the second top block.
C2_Witness ==
  /\ rv # Unused
  /\ RankVec_size(rv) = MaxRvSize
  /\ getNum_1(rv) >= 1 /\ getNum_0(rv) >= 1
  /\ select_1(rv, getNum_1(rv)) >= BSIZE_T
  /\ select_0(rv, getNum_0(rv)) >= BSIZE_T

\* p is the largest position <= val, among the live ones, that holds b
\* (UINT64_MAX: there is none), by the appended sequence itself.
IsPred(b, val, p) ==
  LET v == Min2(val, RankVec_size(rv) - 1)
  IN IF p = UINT64_MAX
     THEN \A i \in 0..v : RvBit(i) # b
     ELSE /\ 0 <= p /\ p <= v
          /\ RvBit(p) = b
          /\ \A i \in (p + 1)..v : RvBit(i) # b

\* p is the smallest live position >= val that holds b (UINT64_MAX: none).
IsSucc(b, val, p) ==
  IF p = UINT64_MAX
  THEN \A i \in val..(RankVec_size(rv) - 1) : RvBit(i) # b
  ELSE /\ val <= p /\ p < RankVec_size(rv)
       /\ RvBit(p) = b
       /\ \A i \in val..(p - 1) : RvBit(i) # b

\* C4: pred_b(val) is the largest live position <= val that holds b and
\* succ_b(val) the smallest live position >= val that holds b, UINT64_MAX
\* when there is none, for every val in [0, 2 * size).
C4_PredSucc ==
  \A val \in 0..(2 * RankVec_size(rv) - 1) :
     /\ IsPred(TRUE, val, pred_1(rv, val))
     /\ IsPred(FALSE, val, pred_0(rv, val))
     /\ IsSucc(TRUE, val, succ_1(rv, val))
     /\ IsSucc(FALSE, val, succ_0(rv, val))

\* The two-word scan finds nothing and the answer comes from rank and
\* select: a predecessor more than two words back, a successor more than
\* two words ahead, and an argument past the size.
C4_Witness ==
  /\ rv # Unused
  /\ RankVec_size(rv) = BSIZE_T + 5
  /\ LET val == RankVec_size(rv) - 1
     IN /\ bits_pred_1(rv.bv.array, val, 2) = UINT64_MAX
        /\ pred_1(rv, val) # UINT64_MAX
        /\ pred_1(rv, 2 * val) = pred_1(rv, val)
  /\ bits_succ_1(rv.bv.array, 0, 2) >= RankVec_size(rv)
  /\ succ_1(rv, 0) < RankVec_size(rv)
  /\ succ_1(rv, RankVec_size(rv) - 1) = UINT64_MAX

\* C5: a step that shortens to n <= size leaves the size at n, and readBit,
\* rank_0 and rank_1 at every position < n, and select_0 and select_1 for
\* every rank whose answer is < n, return what they returned before it.
C5_ShortenKeepsPrefix ==
  [][(rvEnv.cut < 0 /\ rvEnv'.cut >= 0) =>
       LET n == rvEnv'.cut
       IN /\ n <= RankVec_size(rv)
          /\ RankVec_size(rv') = n
          /\ \A pos \in 0..(n - 1) :
                /\ RankVec_readBit(rv', pos) = RankVec_readBit(rv, pos)
                /\ rank_0(rv', pos) = rank_0(rv, pos)
                /\ rank_1(rv', pos) = rank_1(rv, pos)
          /\ n > 0 =>
                /\ \A r \in 1..rank_1(rv, n - 1) :
                      select_1(rv', r) = select_1(rv, r)
                /\ \A r \in 1..rank_0(rv, n - 1) :
                      select_0(rv', r) = select_0(rv, r)]_vars

\* A vector of MaxRvSize bits shortened into the last middle block of its
\* first top block, with 1s and 0s on both sides of the cut.
C5_Witness ==
  /\ rvOld # Unused
  /\ RankVec_size(rvOld) = MaxRvSize
  /\ rvEnv.cut = 193
  /\ RankVec_size(rv) = 193
  /\ rank_1(rvOld, 192) >= 1 /\ rank_0(rvOld, 192) >= 1
  /\ getNum_1(rvOld) > rank_1(rvOld, 192)
  /\ select_1(rv, rank_1(rvOld, 192)) = select_1(rvOld, rank_1(rvOld, 192))

-----------------------------------------------------------------------------
(* uint64_t arithmetic on the naturals the model stores (all < 2^31).  A    *)
(* shift by 64, the width of the type, is undefined behaviour: svEnv.shift64 *)
(* is what the build makes of it, "zero" (the mathematical result) or       *)
(* "mod64" (the count taken modulo 64, as the x86-64 and AArch64 shift      *)
(* instructions do).                                                        *)

ShrU(x, k) ==
  IF k >= WordBits THEN (IF svEnv.shift64 = "mod64" THEN x ELSE 0)
  ELSE IF k >= 31 THEN 0 ELSE x \div Pow2(k)

ShlU(x, k) ==
  IF k >= WordBits THEN (IF svEnv.shift64 = "mod64" THEN x ELSE 0)
  ELSE IF x = 0 THEN 0 ELSE x * Pow2(k)

\* x & bits::UINTW_MAX(w)
AndU(x, w) == IF w >= 31 THEN x ELSE x % Pow2(w)

\* x - 1 on uint64_t
DecU(x) == IF x = 0 THEN UINT64_MAX ELSE x - 1

-----------------------------------------------------------------------------
(* WBitsVec: [array, capacity, size, w, oob].  oob is what a read outside  *)
(* the allocated block returns (the memory next to the block).             *)

WBitsVec_changeCapacity(v, givenCapacity, g) ==
  IF v.capacity # givenCapacity
  THEN LET newCapacity == Max2(v.size, givenCapacity)
       IN IF newCapacity > 0
          THEN [v EXCEPT !.array = Realloc(v.array, (newCapacity * v.w + 63) \div 64, g.w),
                         !.capacity = newCapacity,
                         !.oob = g.o]
          ELSE [v EXCEPT !.array = NullArray, !.capacity = 0]
  ELSE v

WBitsVec_new(w, capacity, g) ==
  WBitsVec_changeCapacity([array |-> NullArray, capacity |-> 0, size |-> 0,
                           w |-> w, oob |-> g.o], capacity, g)

WBitsVec_read(v, idx) ==
  IF idx < v.capacity
  THEN FromWord(readWBits(v.array, idx * v.w, v.w, UINTW_MAX(v.w)))
  ELSE v.oob

WBitsVec_write(v, val, idx) ==
  [v EXCEPT !.array = writeWBits(ToWord(val), v.array, idx * v.w, v.w, UINTW_MAX(v.w))]

\* read and write with the value as a word, for values of any width.
WBitsVec_readWord(v, idx) == readWBits(v.array, idx * v.w, v.w, UINTW_MAX(v.w))

WBitsVec_writeWord(v, val, idx) ==
  [v EXCEPT !.array = writeWBits(val, v.array, idx * v.w, v.w, UINTW_MAX(v.w))]

WBitsVec_clear(v) == [v EXCEPT !.size = 0]

WBitsVec_resize(v, newSize, g) ==
  LET v1 == IF newSize > v.capacity THEN WBitsVec_changeCapacity(v, newSize, g) ELSE v
  IN [v1 EXCEPT !.size = newSize]

\* The loop of convert for w < w_: element i moves down to i * w.
RECURSIVE WBitsVec_convert_narrow(_, _, _, _, _)
WBitsVec_convert_narrow(array, i, size, w_, w) ==
  IF i >= size THEN array
  ELSE WBitsVec_convert_narrow(
         writeWBits(AndW(readWBits(array, i * w_, w_, UINTW_MAX(w_)), UINTW_MAX(w)),
                    array, i * w, w, UINTW_MAX(w)),
         i + 1, size, w_, w)

\* The widening loop with the mask of the old width: the w - w_ high bits
\* of the new field keep what the array held there.
RECURSIVE WBitsVec_convert_widen_oldMask(_, _, _, _)
WBitsVec_convert_widen_oldMask(array, i, w_, w) ==
  IF i = 0 THEN array
  ELSE WBitsVec_convert_widen_oldMask(
         writeWBits(readWBits(array, (i - 1) * w_, w_, UINTW_MAX(w_)),
                    array, (i - 1) * w, w, UINTW_MAX(w_)),
         i - 1, w_, w)

\* The loop of convert for w > w_: from the last element down, element i
\* moves up to i * w (i counts the elements left).
RECURSIVE WBitsVec_convert_widen(_, _, _, _)
WBitsVec_convert_widen(array, i, w_, w) ==
  IF i = 0 THEN array
  ELSE WBitsVec_convert_widen(
         writeWBits(readWBits(array, (i - 1) * w_, w_, UINTW_MAX(w_)),
                    array, (i - 1) * w, w, UINTW_MAX(w)),
         i - 1, w_, w)

\* convert that keeps capacity_ when the array is not reallocated.
WBitsVec_convert_keepsCapacity(v, w, minCapacity0, doShrink, g) ==
  LET a1 == IF w < v.w THEN WBitsVec_convert_narrow(v.array, 0, v.size, v.w, w)
            ELSE v.array
      minCapacity == Max2(minCapacity0, v.size)
      oldLen == (v.capacity * v.w + 63) \div 64
      minLen == (minCapacity * w + 63) \div 64
      realloc == doShrink \/ minLen > oldLen
      a2 == IF realloc THEN Realloc(a1, minLen, g.w) ELSE a1
      a3 == IF w > v.w THEN WBitsVec_convert_widen(a2, v.size, v.w, w) ELSE a2
  IN [array |-> a3,
      capacity |-> IF realloc THEN minCapacity ELSE v.capacity,
      size |-> v.size,
      w |-> w,
      oob |-> IF realloc THEN g.o ELSE v.oob]

WBitsVec_convert(v, w, minCapacity0, doShrink, g) ==
  LET a1 == IF w < v.w THEN WBitsVec_convert_narrow(v.array, 0, v.size, v.w, w)
            ELSE v.array
      minCapacity == Max2(minCapacity0, v.size)
      oldLen == (v.capacity * v.w + 63) \div 64
      minLen == (minCapacity * w + 63) \div 64
      realloc == doShrink \/ minLen > oldLen
      a2 == IF realloc THEN Realloc(a1, minLen, g.w) ELSE a1
      a3 == IF w > v.w THEN WBitsVec_convert_widen(a2, v.size, v.w, w) ELSE a2
  IN [array |-> a3,
      capacity |-> IF realloc THEN minCapacity ELSE (oldLen * 64) \div w,
      size |-> v.size,
      w |-> w,
      oob |-> IF realloc THEN g.o ELSE v.oob]

\* getItrAt(idx): the bit position and the bit-width of the iterator; the
\* array it points into is passed along with it.
WBitsVec_getItrAt(v, idx) == [pos |-> idx * v.w, w |-> v.w]

\* Two arrays laid out in one memory, two words apart, for the functions
\* that take a pointer into each: the word index the second one starts at,
\* the memory, and the second array taken back out of it.
SecondBase(a) == Cardinality(DOMAIN a) + 2

TwoArrays(a, b) ==
  [i \in (DOMAIN a) \cup {SecondBase(a) + j : j \in DOMAIN b} |->
     IF i \in DOMAIN a THEN a[i] ELSE b[i - SecondBase(a)]]

SecondArray(m, a, b) == [j \in DOMAIN b |-> m[SecondBase(a) + j]]

\* mvWBA_SameW, mvWBA_DiffW, mvWBA: the result is the target array, ok
\* (no assertion failed) and oob (an access outside the two arrays).
mvWBA_SameW(srcArray, src, tgtArray, tgt, num) ==
  LET r == mvBits(AssertW([m |-> TwoArrays(srcArray, tgtArray), oob |-> FALSE, ok |-> TRUE],
                          src.w = tgt.w),
                  src.pos \div 64, src.pos % 64,
                  SecondBase(srcArray) + (tgt.pos \div 64), tgt.pos % 64,
                  num * src.w)
  IN [array |-> SecondArray(r.m, srcArray, tgtArray), ok |-> r.ok, oob |-> r.oob]

RECURSIVE mvWBA_DiffW(_, _, _, _, _, _)
mvWBA_DiffW(srcArray, src, tgtArray, tgt, num, ok) ==
  IF num = 0 THEN [array |-> tgtArray, ok |-> ok, oob |-> FALSE]
  ELSE LET val == readWBits(srcArray, src.pos, src.w, UINTW_MAX(src.w))
       IN mvWBA_DiffW(srcArray, [src EXCEPT !.pos = @ + src.w],
                      writeWBits(val, tgtArray, tgt.pos, tgt.w, UINTW_MAX(tgt.w)),
                      [tgt EXCEPT !.pos = @ + tgt.w], num - 1,
                      ok /\ val \subseteq UINTW_MAX(tgt.w))

mvWBA(srcArray, src, tgtArray, tgt, num) ==
  IF src.w = tgt.w
  THEN mvWBA_SameW(srcArray, src, tgtArray, tgt, num)
  ELSE mvWBA_DiffW(srcArray, src, tgtArray, tgt, num, TRUE)

-----------------------------------------------------------------------------
(* SVec<RankVec<>>: [rsv, wbv].                                             *)

SVec_new(loW, capacity, g) ==
  [rsv |-> RankVec_new(capacity, g), wbv |-> WBitsVec_new(loW, capacity, g)]

SVec_size(s) == s.wbv.size

SVec_getNum_1(s) == s.wbv.size

SVec_getMax(s) ==
  ShlU(getNum_0(s.rsv), s.wbv.w) + WBitsVec_read(s.wbv, DecU(s.wbv.size))

SVec_getNum_0(s) ==
  IF SVec_getNum_1(s) > 0 THEN SVec_getMax(s) - SVec_getNum_1(s) ELSE 0

\* rank_1 whose search in the bucket stops at the first element >= key
\* instead of the first element > key.
SVec_rank_1_upTo(s, pos) ==
  LET size == s.wbv.size
      loW == s.wbv.w
      hiBits == ShrU(pos, loW)
      hiMax == getNum_0(s.rsv)
      rvPos == IF hiBits # 0 THEN select_0(s.rsv, hiBits) + 1 ELSE 0
      rank_lb == rank_1(s.rsv, rvPos)
      rank_ub == IF hiBits < hiMax
                 THEN rank_lb + succ_0(s.rsv, rvPos) - rvPos
                 ELSE size + 1
      key == AndU(pos, loW)
  IN IF size = 0 THEN 0
     ELSE IF hiBits > hiMax THEN size
     ELSE IF RankVec_readBit(s.rsv, rvPos) = 0 THEN rank_lb
     ELSE IF key < WBitsVec_read(s.wbv, rank_ub - 2)
          THEN partition_idx(rank_lb - 1, rank_ub - 1,
                             [i \in (rank_lb - 1)..(rank_ub - 2) |->
                                key <= WBitsVec_read(s.wbv, i)])
          ELSE rank_ub - 1

SVec_rank_1(s, pos) ==
  LET size == s.wbv.size
      loW == s.wbv.w
      hiBits == ShrU(pos, loW)
      hiMax == getNum_0(s.rsv)
      rvPos == IF hiBits # 0 THEN select_0(s.rsv, hiBits) + 1 ELSE 0
      rank_lb == rank_1(s.rsv, rvPos)
      rank_ub == IF hiBits < hiMax
                 THEN rank_lb + succ_0(s.rsv, rvPos) - rvPos
                 ELSE size + 1
      key == AndU(pos, loW)
  IN IF size = 0 THEN 0
     ELSE IF hiBits > hiMax THEN size
     ELSE IF RankVec_readBit(s.rsv, rvPos) = 0 THEN rank_lb
     ELSE IF key < WBitsVec_read(s.wbv, rank_ub - 2)
          THEN partition_idx(rank_lb - 1, rank_ub - 1,
                             [i \in (rank_lb - 1)..(rank_ub - 2) |->
                                key < WBitsVec_read(s.wbv, i)])
          ELSE rank_ub - 1

SVec_select_1(s, rank) ==
  ShlU(rank_0(s.rsv, select_1(s.rsv, rank)), s.wbv.w) + WBitsVec_read(s.wbv, DecU(rank))

SVec_rank_0(s, pos) == pos + 1 - SVec_rank_1(s, pos)

SVec_select_0(s, rank) ==
  IF rank < ShlU(succ_1(s.rsv, 0), s.wbv.w) + WBitsVec_read(s.wbv, 0)
  THEN rank - 1
  ELSE rank + partition_idx(0, s.wbv.size,
                            [i \in 0..(s.wbv.size - 1) |->
                               rank <= SVec_select_1(s, i + 1) - i]) - 1

SVec_pred_1(s, val) ==
  LET size == s.wbv.size
      r == SVec_rank_1(s, val)
  IN IF size = 0 THEN UINT64_MAX
     ELSE IF val >= SVec_getMax(s) THEN size
     ELSE IF r # 0 THEN SVec_select_1(s, r) ELSE UINT64_MAX

SVec_succ_1(s, val) ==
  LET size == s.wbv.size
      r == SVec_rank_1(s, val)
      s1 == SVec_select_1(s, r)
  IN IF size = 0 \/ val > SVec_getMax(s) THEN UINT64_MAX
     ELSE IF s1 < val THEN SVec_select_1(s, r + 1) ELSE s1

SVec_changeCapacity(s, givenCapacity, g) ==
  [s EXCEPT !.wbv = WBitsVec_changeCapacity(s.wbv, givenCapacity, g)]

\* for (i = 0; i < diff0; ++i) rsv_.appendBit(false);
RECURSIVE appendZeros(_, _, _)
appendZeros(r, n, g) ==
  IF n <= 0 THEN r ELSE appendZeros(appendBit(r, FALSE, g), n - 1, g)

\* marginFactor is the default, 1.5.
SVec_append(s, val, g) ==
  LET pos == s.wbv.size
      loW == s.wbv.w
      wbv1 == WBitsVec_write(WBitsVec_resize(s.wbv, pos + 1, g), AndU(val, loW), pos)
      diff0 == ShrU(val, loW) - getNum_0(s.rsv)
      rvSizeNew == RankVec_size(s.rsv) + diff0 + 1
      rsv1 == IF rvSizeNew > RankVec_capacity(s.rsv)
              THEN RankVec_changeCapacity(s.rsv, (rvSizeNew * 3) \div 2, g)
              ELSE s.rsv
  IN [rsv |-> appendBit(appendZeros(rsv1, diff0, g), TRUE, g), wbv |-> wbv1]

SVec_shrink_to_fit(s, g) ==
  [rsv |-> RankVec_changeCapacity(s.rsv, 0, g),
   wbv |-> WBitsVec_changeCapacity(s.wbv, 0, g)]

\* convert, loW > loW_old, the lower part: element i gets the loW low bits
\* of the value it stands for.
RECURSIVE convert_inc_lo(_, _, _, _, _)
convert_inc_lo(s, wbv_new, i, rvPos0, loW) ==
  IF i >= s.wbv.size THEN wbv_new
  ELSE LET rvPos == succ_1(s.rsv, rvPos0)
           val == ShlU(rvPos - i, s.wbv.w) + WBitsVec_read(s.wbv, i)
       IN convert_inc_lo(s, WBitsVec_write(wbv_new, AndU(val, loW), i), i + 1, rvPos + 1, loW)

\* convert, loW > loW_old, the higher part (s still holds the old rsv_).
RECURSIVE convert_inc_hi(_, _, _, _, _, _, _)
convert_inc_hi(s, rsv_new, i, rvPos0, cur, diffW, g) ==
  IF i >= s.wbv.size THEN rsv_new
  ELSE LET rvPos == succ_1(s.rsv, rvPos0)
           next == ShrU(rvPos - i, diffW)
       IN convert_inc_hi(s, appendBit(appendZeros(rsv_new, next - cur, g), TRUE, g),
                         i + 1, rvPos + 1, Max2(cur, next), diffW, g)

\* convert, loW < loW_old, the higher part.
RECURSIVE convert_dec_hi(_, _, _, _, _, _, _, _)
convert_dec_hi(s, rsv_new, i, rvPos0, cur, diffW, loW, g) ==
  IF i >= s.wbv.size THEN rsv_new
  ELSE LET rvPos == succ_1(s.rsv, rvPos0)
           next == ShlU(rvPos - i, diffW) + ShrU(WBitsVec_read(s.wbv, i), loW)
       IN convert_dec_hi(s, appendBit(appendZeros(rsv_new, next - cur, g), TRUE, g),
                         i + 1, rvPos + 1, Max2(cur, next), diffW, loW, g)

\* marginFactor is the default, 1.0; g is what the allocator hands out to
\* the blocks convert allocates.
SVec_convert(s, loW, minCapacity0, doShrink, g) ==
  LET loW_old == s.wbv.w
      size == s.wbv.size
      minCapacity == Max2(minCapacity0, size)
  IN IF loW = loW_old
     THEN IF doShrink
          THEN [rsv |-> IF RankVec_size(s.rsv) < RankVec_capacity(s.rsv)
                        THEN RankVec_changeCapacity(s.rsv, RankVec_size(s.rsv), g)
                        ELSE s.rsv,
                wbv |-> WBitsVec_convert(s.wbv, loW, minCapacity0, doShrink, g)]
          ELSE s
     ELSE IF loW > loW_old
     THEN LET s1 == SVec_shrink_to_fit(s, g)
              diffW == loW - loW_old
              wbv_new == convert_inc_lo(s1, WBitsVec_resize(WBitsVec_new(loW, minCapacity, g), size, g),
                                        0, 0, loW)
              rsv_new_size == size + ShrU(getNum_0(s1.rsv), diffW)
          IN [rsv |-> convert_inc_hi(s1, RankVec_new(rsv_new_size, g), 0, 0, 0, diffW, g),
              wbv |-> wbv_new]
     ELSE LET diffW == loW_old - loW
              rsv_new_size == size + ShlU(getNum_0(s.rsv), diffW)
                                + ShrU(WBitsVec_read(s.wbv, DecU(size)), loW)
          IN [rsv |-> convert_dec_hi(s, RankVec_new(rsv_new_size, g), 0, 0, 0, diffW, loW, g),
              wbv |-> WBitsVec_convert(s.wbv, loW, minCapacity, doShrink, g)]

-----------------------------------------------------------------------------
(* Specification SpecSv: an SVec constructed with room for MaxSvLen        *)
(* elements, filled by append with a strictly increasing sequence          *)
(* (svEnv.a), then rebalanced once by convert; svOld is the copy taken     *)
(* before the conversion.                                                  *)

MaxSvLen == 4
MaxSvVal == 14

\* The bit-widths of the lower part.
SvLoWs == {1, 2, WordBits}

\* The first element appended, and the gaps between an element and the next.
SvFirst == {0, 1, 3}
SvGaps == {1, 2, 5}

\* What the allocator hands out: new words, new counters, and what lies
\* next to a block.
SvGarbage == {[w |-> {}, c |-> 0, o |-> 0], [w |-> BitIdx, c |-> 50000, o |-> 1000]}

InitSv ==
  /\ \E loW \in SvLoWs, g \in SvGarbage, sh \in {"zero", "mod64"} :
       /\ svEnv = [a |-> <<>>, g |-> g, shift64 |-> sh, conv |-> FALSE]
       /\ sv = SVec_new(loW, MaxSvLen, g)
  /\ svOld = Unused
  /\ mem = Unused /\ mv = Unused
  /\ rv = Unused /\ rvEnv = Unused /\ rvOld = Unused
  /\ wv = Unused /\ wvEnv = Unused /\ wvOld = Unused
  /\ wb = Unused
  /\ sc = Unused /\ scEnv = Unused /\ scOld = Unused
  /\ cap = Unused
  /\ cp = Unused

SvNextVals ==
  IF svEnv.a = <<>> THEN SvFirst
  ELSE {svEnv.a[Len(svEnv.a)] + d : d \in SvGaps}

SvAppend ==
  /\ ~svEnv.conv
  /\ Len(svEnv.a) < MaxSvLen
  /\ SVec_size(sv) < sv.wbv.capacity
  /\ \E val \in SvNextVals :
       /\ val <= MaxSvVal
       /\ sv' = SVec_append(sv, val, svEnv.g)
       /\ svEnv' = [svEnv EXCEPT !.a = Append(@, val)]
  /\ UNCHANGED <<mem, mv, rv, rvEnv, rvOld, svOld, wv, wvEnv, wvOld, wb, sc, scEnv, scOld, cap, cp>>

SvConvert ==
  /\ ~svEnv.conv
  /\ Len(svEnv.a) >= 1
  /\ sv.wbv.w < WordBits
  /\ \E loW \in SvLoWs \ {sv.wbv.w}, doShrink \in BOOLEAN, g \in SvGarbage :
       sv' = SVec_convert(sv, loW, 0, doShrink, g)
  /\ svOld' = sv
  /\ svEnv' = [svEnv EXCEPT !.conv = TRUE]
  /\ UNCHANGED <<mem, mv, rv, rvEnv, rvOld, wv, wvEnv, wvOld, wb, sc, scEnv, scOld, cap, cp>>

NextSv == SvAppend \/ SvConvert

SpecSv == InitSv /\ [][NextSv]_vars

\* The arguments the queries are asked with.
SvArgs == 0..(MaxSvVal + 2)

\* The elements appended so far.
SvElems == {svEnv.a[i] : i \in 1..Len(svEnv.a)}

\* C6: at every point of the appending, select_1(j + 1) is a[j] for every
\* element appended so far, whatever loW in [1, 64] the SVec was built with.
C6_SelectIsAppended ==
  ~svEnv.conv =>
     \A j \in 1..Len(svEnv.a) : SVec_select_1(sv, j) = svEnv.a[j]

C8_ConvertKeepsQueries ==
  svEnv.conv =>
     /\ \A v \in SvArgs :
           /\ SVec_rank_1(sv, v) = SVec_rank_1(svOld, v)
           /\ SVec_rank_0(sv, v) = SVec_rank_0(svOld, v)
           /\ SVec_pred_1(sv, v) = SVec_pred_1(svOld, v)
           /\ SVec_succ_1(sv, v) = SVec_succ_1(svOld, v)
     /\ \A r \in 1..SVec_getNum_1(svOld) :
           SVec_select_1(sv, r) = SVec_select_1(svOld, r)
     /\ \A r \in 1..SVec_getNum_0(svOld) :
           SVec_select_0(sv, r) = SVec_select_0(svOld, r)

\* C9: pred_1(v) is the largest element <= v (the last element when
\* v >= getMax()), and UINT64_MAX when no element is <= v.
C9_Pred1IsLargestBelow ==
  \A v \in SvArgs :
     SVec_pred_1(sv, v) =
        (IF \E x \in SvElems : x <= v
         THEN SetMax({x \in SvElems : x <= v})
         ELSE UINT64_MAX)

\* C10: succ_1(v) is the smallest element >= v (the first element when
\* v < a[0]), and UINT64_MAX when no element is >= v.
C10_Succ1IsSmallestAbove ==
  \A v \in SvArgs :
     SVec_succ_1(sv, v) =
        (IF \E x \in SvElems : x >= v
         THEN SetMin({x \in SvElems : x >= v})
         ELSE UINT64_MAX)

\* The non-negative integers that are not elements, up to the point where
\* every rank asked of select_0 is answered.
SvNonElems == (0..(MaxSvVal + MaxSvLen + 2)) \ SvElems

\* C11: for every r in [1, getNum_0()], select_0(r) is the r-th smallest
\* non-negative integer that is not an element, and rank_0 of it, which is
\* pos + 1 - rank_1(pos), is r.
C11_Select0IsNthNonElement ==
  \A r \in 1..SVec_getNum_0(sv) :
     LET p == SVec_select_0(sv, r)
     IN /\ p \in SvNonElems
        /\ Cardinality({y \in SvNonElems : y <= p}) = r
        /\ SVec_rank_0(sv, p) = r
        /\ SVec_rank_0(sv, p) = p + 1 - SVec_rank_1(sv, p)

-----------------------------------------------------------------------------
(* Specification SpecWv: a WBitsVec built with some bit-width, filled      *)
(* element by element (resize, write), then either converted once to       *)
(* another bit-width (wvOld is the copy taken before the conversion) or    *)
(* moved in part into a second WBitsVec (wvEnv.move).                      *)

MaxWvSize == 3

\* The bit-widths tried: a narrow one, the two around half a word, a word.
WvWidths == {3, 31, 33, WordBits}

WvGarbage == SvGarbage

\* The values written at index j into a vector of width w: all ones, one
\* raised bit, and every other bit.
WvVals(w, j) ==
  {UINTW_MAX(w), {j % w}, {i \in 0..(w - 1) : i % 2 = j % 2}}

NoMove == [num |-> 0]

InitWv ==
  /\ \E w \in WvWidths, capacity \in {0, MaxWvSize}, g \in WvGarbage :
       /\ wv = WBitsVec_new(w, capacity, g)
       /\ wvEnv = [g |-> g, conv |-> FALSE, move |-> NoMove]
  /\ wvOld = Unused
  /\ mem = Unused /\ mv = Unused
  /\ rv = Unused /\ rvEnv = Unused /\ rvOld = Unused
  /\ sv = Unused /\ svEnv = Unused /\ svOld = Unused
  /\ wb = Unused
  /\ sc = Unused /\ scEnv = Unused /\ scOld = Unused
  /\ cap = Unused
  /\ cp = Unused

\* resize(size + 1) and write(val, size)
WvPush ==
  /\ ~wvEnv.conv /\ wvEnv.move = NoMove
  /\ wv.size < MaxWvSize
  /\ \E val \in WvVals(wv.w, wv.size) :
       wv' = WBitsVec_writeWord(WBitsVec_resize(wv, wv.size + 1, wvEnv.g), val, wv.size)
  /\ UNCHANGED <<mem, mv, rv, rvEnv, rvOld, sv, svEnv, svOld, wvEnv, wvOld, wb, sc, scEnv, scOld, cap, cp>>

WvConvert ==
  /\ ~wvEnv.conv /\ wvEnv.move = NoMove
  /\ \E w \in WvWidths \ {wv.w}, minCapacity \in {0, MaxWvSize + 1},
        doShrink \in BOOLEAN, g \in WvGarbage :
       wv' = WBitsVec_convert(wv, w, minCapacity, doShrink, g)
  /\ wvOld' = wv
  /\ wvEnv' = [wvEnv EXCEPT !.conv = TRUE]
  /\ UNCHANGED <<mem, mv, rv, rvEnv, rvOld, sv, svEnv, svOld, wb, sc, scEnv, scOld, cap, cp>>

\* mvWBA(wv.getItrAt(srcBeg), tgt.getItrAt(tgtBeg), num) into a second
\* vector tgt of MaxWvSize elements, of the same or of another bit-width,
\* that holds what the allocator hands out to this program (wvEnv.g).
WvMove ==
  /\ ~wvEnv.conv /\ wvEnv.move = NoMove
  /\ \E w \in WvWidths, srcBeg \in {0, 1}, tgtBeg \in {0, 1}, num \in 1..MaxWvSize :
       /\ srcBeg + num <= wv.size
       /\ tgtBeg + num <= MaxWvSize
       /\ LET g == wvEnv.g
              tgt == WBitsVec_resize(WBitsVec_new(w, MaxWvSize, g), MaxWvSize, g)
              r == mvWBA(wv.array, WBitsVec_getItrAt(wv, srcBeg),
                         tgt.array, WBitsVec_getItrAt(tgt, tgtBeg), num)
          IN wvEnv' = [wvEnv EXCEPT !.move =
                         [num |-> num, srcBeg |-> srcBeg, tgtBeg |-> tgtBeg,
                          tgt0 |-> tgt, tgt |-> [tgt EXCEPT !.array = r.array],
                          ok |-> r.ok, oob |-> r.oob]]
  /\ UNCHANGED <<mem, mv, rv, rvEnv, rvOld, sv, svEnv, svOld, wv, wvOld, wb, sc, scEnv, scOld, cap, cp>>

NextWv == WvPush \/ WvConvert \/ WvMove

SpecWv == InitWv /\ [][NextWv]_vars

\* C12: after convert(w') the size is what it was, and every element
\* i < size reads its old value when w' > w, its old value masked to the
\* low w' bits when w' < w.
C12_ConvertKeepsValues ==
  wvEnv.conv =>
     /\ wv.size = wvOld.size
     /\ \A i \in 0..(wv.size - 1) :
           WBitsVec_readWord(wv, i) =
              (IF wv.w > wvOld.w
               THEN WBitsVec_readWord(wvOld, i)
               ELSE AndW(WBitsVec_readWord(wvOld, i), UINTW_MAX(wv.w)))

\* A full vector of whole words narrowed to 33 bits: the elements lose
\* their high bits and straddle the word boundaries afterwards.
C12_Witness ==
  /\ wv # Unused /\ wvEnv.conv
  /\ wvOld.w = WordBits /\ wv.w = 33
  /\ wv.size = MaxWvSize
  /\ WBitsVec_readWord(wvOld, 1) = UINTW_MAX(WordBits)
  /\ WBitsVec_readWord(wv, 1) = UINTW_MAX(33)
  /\ WBitsVec_readWord(wv, 2) # WBitsVec_readWord(wvOld, 2)

\* C19: a move of num elements between vectors of different bit-widths runs
\* to its end (no assertion fails), and every element moved reads in the
\* target as the source element masked to the target's w bits, also when
\* the source value does not fit in the target's width.
C19_MoveTruncates ==
  (wvEnv.move # NoMove /\ wvEnv.move.tgt.w # wv.w) =>
     /\ wvEnv.move.ok
     /\ \A k \in 0..(wvEnv.move.num - 1) :
           WBitsVec_readWord(wvEnv.move.tgt, wvEnv.move.tgtBeg + k) =
              AndW(WBitsVec_readWord(wv, wvEnv.move.srcBeg + k),
                   UINTW_MAX(wvEnv.move.tgt.w))

-----------------------------------------------------------------------------
(* Specification SpecWb: one writeWBits on an array of WbWords words,      *)
(* followed by readWBits of the same region.                               *)

WbWords == 3

\* The contents of the array before the write: all 0, all 1, irregular.
WbArrays ==
  { [i \in 0..(WbWords - 1) |-> {}],
    [i \in 0..(WbWords - 1) |-> BitIdx],
    [i \in 0..(WbWords - 1) |-> {j \in BitIdx : ((i * 64 + j) * 37 + j \div 5) % 3 = 1}] }

\* The bit-widths and bit positions tried: around the middle and the end of
\* a word.
WbWidths == {1, 2, 31, 32, 33, 63, WordBits}
WbPositions == {0, 1, 31, 32, 33, 63, 64, 65, 100, 127, 128}

\* The values of w bits written: 0, all ones, the highest bit alone, every
\* other bit.
WbVals(w) == {{}, UINTW_MAX(w), {w - 1}, {i \in 0..(w - 1) : i % 2 = 0}}

InitWb ==
  /\ \E array \in WbArrays : wb = [phase |-> "idle", array |-> array]
  /\ mem = Unused /\ mv = Unused
  /\ rv = Unused /\ rvEnv = Unused /\ rvOld = Unused
  /\ sv = Unused /\ svEnv = Unused /\ svOld = Unused
  /\ wv = Unused /\ wvEnv = Unused /\ wvOld = Unused
  /\ sc = Unused /\ scEnv = Unused /\ scOld = Unused
  /\ cap = Unused
  /\ cp = Unused

WbWriteRead ==
  /\ wb.phase = "idle"
  /\ \E w \in WbWidths, bitPos \in WbPositions :
       /\ bitPos + w <= 64 * WbWords
       /\ \E val \in WbVals(w) :
            LET array == writeWBits(val, wb.array, bitPos, w, UINTW_MAX(w))
            IN wb' = [phase |-> "done", array |-> array, array0 |-> wb.array,
                      bitPos |-> bitPos, w |-> w, val |-> val,
                      ret |-> readWBits(array, bitPos, w, UINTW_MAX(w)),
                      shifts |-> WBits_shifts(bitPos, w)]
  /\ UNCHANGED <<mem, mv, rv, rvEnv, rvOld, sv, svEnv, svOld, wv, wvEnv, wvOld, sc, scEnv, scOld, cap, cp>>

\* The caller restores the array and is ready for another write.
WbRestore ==
  /\ wb.phase = "done"
  /\ wb' = [phase |-> "idle", array |-> wb.array0]
  /\ UNCHANGED <<mem, mv, rv, rvEnv, rvOld, sv, svEnv, svOld, wv, wvEnv, wvOld, sc, scEnv, scOld, cap, cp>>

NextWb == WbWriteRead \/ WbRestore

SpecWb == InitWb /\ [][NextWb]_vars

\* C16: for every w in [1, 64] and every bit position, readWBits after
\* writeWBits(v) returns v, the write changes no bit outside
\* [bitPos, bitPos + w), and no shift by 64 or more is executed (w = 64 at
\* any offset included).
C16_WriteReadRoundTrip ==
  wb.phase = "done" =>
     /\ wb.ret = wb.val
     /\ \A i \in 0..(WbWords - 1) :
           LET out == {j \in BitIdx :
                         (64 * i + j) \notin wb.bitPos..(wb.bitPos + wb.w - 1)}
           IN wb.array[i] \cap out = wb.array0[i] \cap out
     /\ \A k \in wb.shifts : k < WordBits

\* A whole word of ones written across a word boundary into an array of
\* zeros.
C16_Witness ==
  /\ wb # Unused /\ wb.phase = "done"
  /\ wb.w = WordBits /\ wb.bitPos = 33
  /\ wb.val = UINTW_MAX(WordBits) /\ wb.ret = wb.val
  /\ wb.array0[0] = {} /\ wb.array[0] = 33..63 /\ wb.array[1] = 0..32
  /\ wb.shifts = {33, 31}

-----------------------------------------------------------------------------
(* StepCode<kMaxNum>: [wCodes, vals, bitCapacity, bitSize, size, ok, oob]. *)
(* wCodes is the array wCodes_ of kMaxNum / kWCNum words inside the        *)
(* object, vals the allocated word array vals_; ok is lowered by a failed  *)
(* assertion, oob raised by an access outside an array.                    *)

kStep == 4
kWCBits == 4
kWCNum == 16
kMaxNum == 32

bitSize(val) == IF val = {} THEN 1 ELSE SetMax(val) + 1

\* a + b on uint64_t, hexadecimal digit by digit from the lowest, with the
\* carry handed from each digit to the next; the carry out of the highest
\* digit is dropped.
HexDigit(x, n) ==
  (IF 4 * n \in x THEN 1 ELSE 0) + (IF 4 * n + 1 \in x THEN 2 ELSE 0)
  + (IF 4 * n + 2 \in x THEN 4 ELSE 0) + (IF 4 * n + 3 \in x THEN 8 ELSE 0)

RECURSIVE AddW_from(_, _, _, _)
AddW_from(x, y, n, c) ==
  IF 4 * n = WordBits THEN {}
  ELSE LET t == HexDigit(x, n) + HexDigit(y, n) + c
       IN {4 * n + b : b \in {k \in 0..3 : (t \div Pow2(k)) % 2 = 1}}
            \cup AddW_from(x, y, n + 1, t \div 16)

AddW(x, y) == AddW_from(x, y, 0, 0)

calcWCode(val) == (bitSize(val) - 1) \div kStep

\* calcSteppedW that rounds the bit size down to a multiple of kStep.
calcSteppedW_roundDown(val) == (bitSize(val) \div kStep) * kStep

calcSteppedW(val) == ((bitSize(val) + 3) \div kStep) * kStep

readW(wCodes, idx) ==
  kStep * (FromWord(readWBits_S(wCodes, kWCBits * idx, UINTW_MAX(kWCBits))) + 1)

writeWCode(wCode, wCodes, idx) ==
  writeWBits_S(ToWord(wCode), wCodes, kWCBits * idx, UINTW_MAX(kWCBits))

\* sumWCodes that adds the two nibbles of every byte and then returns the
\* lowest byte without the horizontal sum of the bytes.
sumWCodes_lowByteOnly(wCodesInWord) ==
  LET w1 == AddW(ShrW(AndW(wCodesInWord, {i \in BitIdx : i % 8 >= 4}), 4),
                 AndW(wCodesInWord, {i \in BitIdx : i % 8 < 4}))
  IN FromWord(AndW(w1, UINTW_MAX(8)))

sumWCodes(wCodesInWord) ==
  LET w1 == AddW(ShrW(AndW(wCodesInWord, {i \in BitIdx : i % 8 >= 4}), 4),
                 AndW(wCodesInWord, {i \in BitIdx : i % 8 < 4}))
      w2 == AddW(w1, ShrW(w1, 8))
      w3 == AddW(w2, ShrW(w2, 16))
      w4 == AddW(w3, ShrW(w3, 32))
  IN FromWord(AndW(w4, UINTW_MAX(8)))

RECURSIVE calcBitPos_loop(_, _, _, _)
calcBitPos_loop(wCodes, idx, i, sum) ==
  IF i < idx \div kWCNum
  THEN calcBitPos_loop(wCodes, idx, i + 1, sum + sumWCodes(wCodes[i]))
  ELSE sum

calcBitPos(wCodes, idx) ==
  LET sum == calcBitPos_loop(wCodes, idx, 0, idx)
      rem == idx % kWCNum
  IN (IF rem # 0
      THEN sum + sumWCodes(AndW(wCodes[idx \div kWCNum], UINTW_MAX(rem * kWCBits)))
      ELSE sum) * kStep

RECURSIVE sumW(_, _, _)
sumW(wCodes, beg, end) ==
  IF beg < end THEN readW(wCodes, beg) + sumW(wCodes, beg + 1, end) ELSE 0

\* setBitCapacity: the new bit capacity and the reallocated vals_.
StepCode_setBitCapacity(s, givenCapacity, g) ==
  LET newLen == (givenCapacity + 63) \div 64
  IN [s EXCEPT !.vals = IF newLen > 0 THEN Realloc(s.vals, newLen, g.w) ELSE NullArray,
               !.bitCapacity = newLen * 64]

\* changeBitCapacity without the max with bitSize_.
StepCode_changeBitCapacity_belowBitSize(s, givenCapacity, g) ==
  IF s.bitCapacity # givenCapacity
  THEN StepCode_setBitCapacity(s, givenCapacity, g)
  ELSE s

StepCode_changeBitCapacity(s, givenCapacity, g) ==
  IF s.bitCapacity # givenCapacity
  THEN StepCode_setBitCapacity(s, Max2(s.bitSize, givenCapacity), g)
  ELSE s

\* StepCode(initBitCapacity); wc is what the words of wCodes_, which no
\* constructor writes, hold.
StepCode_new(initBitCapacity, g, wc) ==
  StepCode_changeBitCapacity(
    [wCodes |-> [i \in 0..((kMaxNum \div kWCNum) - 1) |-> wc], vals |-> NullArray,
     bitCapacity |-> 0, bitSize |-> 0, size |-> 0, ok |-> TRUE, oob |-> FALSE],
    initBitCapacity, g)

StepCode_readW(s, idx) == readW(s.wCodes, idx)

StepCode_read(s, idx) ==
  LET bitPos == calcBitPos(s.wCodes, idx)
      w == readW(s.wCodes, idx)
  IN readWBits(s.vals, bitPos, w, UINTW_MAX(w))

\* append(val, steppedW)
StepCode_append_W(s, val, steppedW) ==
  LET wCode == (steppedW \div kStep) - 1
  IN [s EXCEPT !.ok = /\ @ /\ s.size < kMaxNum
                      /\ s.bitSize + steppedW <= s.bitCapacity
                      /\ steppedW <= 64 /\ steppedW % 4 = 0
                      /\ bitSize(val) <= steppedW,
               !.vals = writeWBits(val, @, s.bitSize, steppedW, UINTW_MAX(steppedW)),
               !.wCodes = writeWCode(wCode, @, s.size),
               !.bitSize = @ + steppedW,
               !.size = @ + 1]

\* append(val)
StepCode_append(s, val) ==
  StepCode_append_W([s EXCEPT !.ok = /\ @ /\ s.size < kMaxNum
                                     /\ s.bitSize + calcSteppedW(val) <= s.bitCapacity],
                    val, calcSteppedW(val))

\* cpBytes(src, tgt, bytes): the first bytes bytes of tgt become those of src.
cpBytes(src, tgt, bytes) ==
  [i \in DOMAIN tgt |->
     {b \in BitIdx : IF (64 * i + b) \div 8 < bytes THEN b \in src[i] ELSE b \in tgt[i]}]

\* StepCode(const StepCode & other): the copy reserves other.bitSize bits and
\* copies the bytes in use of vals_ and of wCodes_; the rest of both arrays
\* holds what the memory held (g.w in vals_, wc in wCodes_).
StepCode_copy(other, g, wc) ==
  LET fresh == [wCodes |-> [i \in DOMAIN other.wCodes |-> wc], vals |-> NullArray,
                bitCapacity |-> 0, bitSize |-> other.bitSize, size |-> other.size,
                ok |-> other.ok, oob |-> FALSE]
  IN IF other.size > 0
     THEN LET s1 == StepCode_setBitCapacity(fresh, Max2(other.bitSize, fresh.bitSize), g)
          IN [s1 EXCEPT !.vals = cpBytes(other.vals, @, (other.bitSize + 7) \div 8),
                        !.wCodes = cpBytes(other.wCodes, @, (other.size * kWCBits + 7) \div 8)]
     ELSE [fresh EXCEPT !.size = 0, !.bitSize = 0]

\* mvWCodes from wCodes_ itself (getConstPtr_wCodes()) and from another array.
StepCode_mvWCodes_own(s, srcIdxBeg, tgtIdxBeg, len) ==
  LET r == mvBits([m |-> s.wCodes, oob |-> s.oob, ok |-> s.ok],
                  0, srcIdxBeg * kWCBits, 0, tgtIdxBeg * kWCBits, len * kWCBits)
  IN [s EXCEPT !.wCodes = r.m, !.oob = r.oob, !.ok = r.ok]

StepCode_mvWCodes(s, srcWCodes, srcIdxBeg, tgtIdxBeg, len) ==
  LET r == mvBits([m |-> TwoArrays(srcWCodes, s.wCodes), oob |-> s.oob, ok |-> s.ok],
                  0, srcIdxBeg * kWCBits, SecondBase(srcWCodes), tgtIdxBeg * kWCBits,
                  len * kWCBits)
  IN [s EXCEPT !.wCodes = SecondArray(r.m, srcWCodes, s.wCodes), !.oob = r.oob, !.ok = r.ok]

\* mvVals from vals_ itself (getConstPtr_vals()).
StepCode_mvVals_own(s, srcBitPos, tgtBitPos, bitLen) ==
  LET r == mvBits([m |-> s.vals, oob |-> s.oob, ok |-> s.ok],
                  0, srcBitPos, 0, tgtBitPos, bitLen)
  IN [s EXCEPT !.vals = r.m, !.oob = r.oob, !.ok = r.ok]

changeWCodesAndValPos(s, src, srcIdxBeg, srcLen, tgtIdxBeg, tgtLen, bitPos, insBitLen, delBitLen) ==
  LET s0 == [s EXCEPT !.ok = /\ @ /\ tgtIdxBeg + tgtLen <= s.size
                             /\ s.size - tgtLen + srcLen < kMaxNum
                             /\ s.size + srcLen >= tgtLen]
      tailNum == s.size - (tgtIdxBeg + tgtLen)
      s1 == IF srcLen # tgtLen /\ tailNum # 0
            THEN StepCode_mvWCodes_own(s0, tgtIdxBeg + tgtLen, tgtIdxBeg + srcLen, tailNum)
            ELSE s0
      s2 == IF srcLen # 0
            THEN StepCode_mvWCodes(s1, src, srcIdxBeg, tgtIdxBeg, srcLen)
            ELSE s1
      s3 == [s2 EXCEPT !.size = @ + srcLen - tgtLen]
      srcPos == bitPos + delBitLen
      tgtPos == bitPos + insBitLen
      s4 == StepCode_mvVals_own(s3, srcPos, tgtPos, s.bitSize - srcPos)
  IN [s4 EXCEPT !.bitSize = @ + insBitLen - delBitLen]

-----------------------------------------------------------------------------
(* Specification SpecSc: a StepCode<kMaxNum> built with 64 bits or none,   *)
(* filled value by value the way the tests do (the capacity is raised to   *)
(* 1.25 times the needed size whenever a value does not fit), then copied  *)
(* and spliced once with codes of a source word (scOld is the copy before  *)
(* the splice, scEnv.splice the arguments of the call).                    *)

\* The j-th value appended under pattern p: a single bit walking up (the
\* values of the tests), whole words, values on both sides of the width
\* steps, and the sequence 1, 300, 65537, 7 followed by zeros.
ScPatterns == {"walk", "wide", "steps", "example"}

ScVal(p, j) ==
  CASE p = "walk" -> {j % 64}
    [] p = "wide" -> BitIdx
    [] p = "steps" -> (CASE j % 4 = 0 -> {}
                         [] j % 4 = 1 -> UINTW_MAX(4)
                         [] j % 4 = 2 -> {4}
                         [] OTHER -> UINTW_MAX(((9 * j) % 64) + 1))
    [] OTHER -> (CASE j = 0 -> ToWord(1)
                   [] j = 1 -> ToWord(300)
                   [] j = 2 -> ToWord(65537)
                   [] j = 3 -> ToWord(7)
                   [] OTHER -> {})

\* The source words of a splice with the index the codes are taken from:
\* the codes 0, 1, ..., 15 (the source of the tests) from index 0 or 1, and
\* sixteen codes 15 from index 0.
wCodeSrc == [i \in {0} |-> UNION {{4 * j + b : b \in ToWord(j)} : j \in 0..(kWCNum - 1)}]

ScSources == {<<wCodeSrc, 0>>, <<wCodeSrc, 1>>, <<[i \in {0} |-> BitIdx], 0>>}

\* What freshly obtained memory holds, in vals_ and in wCodes_ alike.
ScGarbage == {{}, BitIdx}

NoSplice == [srcLen |-> 0, tgtLen |-> 0, done |-> FALSE]

\* The sizes at which the model splices.
ScSpliceSizes == {0, 1, 4, kWCNum, kWCNum + 1}

InitSc ==
  /\ \E p \in ScPatterns, w \in ScGarbage, initBitCapacity \in {0, 64} :
       /\ scEnv = [p |-> p, g |-> [w |-> w], wc |-> w, vs |-> <<>>, splice |-> NoSplice]
       /\ sc = StepCode_new(initBitCapacity, [w |-> w], w)
  /\ scOld = Unused
  /\ mem = Unused /\ mv = Unused
  /\ rv = Unused /\ rvEnv = Unused /\ rvOld = Unused
  /\ sv = Unused /\ svEnv = Unused /\ svOld = Unused
  /\ wv = Unused /\ wvEnv = Unused /\ wvOld = Unused
  /\ wb = Unused
  /\ cap = Unused
  /\ cp = Unused

\* One round of the filling loop of the tests.
ScAppend ==
  /\ ~scEnv.splice.done
  /\ sc.size < kMaxNum
  /\ LET val == ScVal(scEnv.p, sc.size)
         newBvSize == sc.bitSize + calcSteppedW(val)
         s1 == IF newBvSize > sc.bitCapacity
               THEN StepCode_changeBitCapacity(sc, (newBvSize * 5) \div 4, scEnv.g)
               ELSE sc
     IN /\ sc' = StepCode_append(s1, val)
        /\ scEnv' = [scEnv EXCEPT !.vs = Append(@, val)]
  /\ UNCHANGED <<mem, mv, rv, rvEnv, rvOld, sv, svEnv, svOld, wv, wvEnv, wvOld, wb, scOld, cap, cp>>

\* One block of the splice test: SC cc(code), the position and the lengths
\* computed from the codes (with StepCodeUtil::calcBitPos, which takes
\* idx = size too), the capacity raised if needed, then the splice.
ScSplice ==
  /\ ~scEnv.splice.done
  /\ sc.size \in ScSpliceSizes
  /\ \E from \in ScSources, srcLen \in {0, 1, 5, kWCNum},
        tgtIdxBeg \in {0, 1, 8, sc.size}, tgtLen \in {0, 2, 3} :
       /\ from[2] + srcLen <= kWCNum
       /\ tgtIdxBeg + tgtLen <= sc.size
       /\ sc.size - tgtLen + srcLen < kMaxNum
       /\ LET src == from[1]
              srcIdxBeg == from[2]
              cc == StepCode_copy(sc, scEnv.g, scEnv.wc)
              bitPos == calcBitPos(cc.wCodes, tgtIdxBeg)
              insBitLen == sumW(src, srcIdxBeg, srcIdxBeg + srcLen)
              delBitLen == sumW(cc.wCodes, tgtIdxBeg, tgtIdxBeg + tgtLen)
              newBvSize == cc.bitSize + insBitLen - delBitLen
              c1 == IF insBitLen > delBitLen /\ newBvSize > cc.bitCapacity
                    THEN StepCode_changeBitCapacity(cc, newBvSize, scEnv.g)
                    ELSE cc
          IN /\ scOld' = c1
             /\ sc' = changeWCodesAndValPos(c1, src, srcIdxBeg, srcLen, tgtIdxBeg, tgtLen,
                                            bitPos, insBitLen, delBitLen)
             /\ scEnv' = [scEnv EXCEPT !.splice =
                            [src |-> src, srcIdxBeg |-> srcIdxBeg, srcLen |-> srcLen,
                             tgtIdxBeg |-> tgtIdxBeg, tgtLen |-> tgtLen, bitPos |-> bitPos,
                             insBitLen |-> insBitLen, delBitLen |-> delBitLen,
                             done |-> TRUE]]
  /\ UNCHANGED <<mem, mv, rv, rvEnv, rvOld, sv, svEnv, svOld, wv, wvEnv, wvOld, wb, cap, cp>>

NextSc == ScAppend \/ ScSplice

SpecSc == InitSc /\ [][NextSc]_vars

\* C14: as long as values are only appended, the StepCode is sound: no
\* assertion failed, and for every i < size readW(i) is the smallest multiple
\* of 4 that is >= bitSize(v_i), lies in {4, 8, ..., 64}, and read(i) = v_i.
C14_AppendRead ==
  ~scEnv.splice.done =>
     /\ sc.ok /\ sc.size = Len(scEnv.vs)
     /\ \A i \in 0..(sc.size - 1) :
           LET v == scEnv.vs[i + 1]
               w == StepCode_readW(sc, i)
           IN /\ w \in {4 * k : k \in 1..16}
              /\ w >= bitSize(v) /\ w - 4 < bitSize(v)
              /\ StepCode_read(sc, i) = v

\* A full block of kMaxNum values with both extremes of width in it: a value
\* of one bit read back in 4 bits and a value with bit 63 raised read back
\* in 64 bits, lying across a word boundary of vals_.
C14_Witness ==
  /\ sc # Unused /\ ~scEnv.splice.done /\ sc.size = kMaxNum
  /\ \E i, j \in 0..(sc.size - 1) :
        /\ StepCode_readW(sc, i) = 4 /\ StepCode_read(sc, i) = scEnv.vs[i + 1]
        /\ StepCode_readW(sc, j) = 64 /\ 63 \in StepCode_read(sc, j)
        /\ calcBitPos(sc.wCodes, j) % 64 # 0

\* C15: for every i <= size, calcBitPos(i) is the sum of readW(j) over j < i,
\* and sumWCodes of every word of wCodes_ (whatever it holds) is the sum of
\* its 16 nibbles.
C15_CalcBitPosIsSumOfWidths ==
  sc # Unused =>
     /\ \A i \in 0..sc.size : calcBitPos(sc.wCodes, i) = sumW(sc.wCodes, 0, i)
     /\ \A k \in DOMAIN sc.wCodes :
           sumWCodes(sc.wCodes[k]) =
              sumW([j \in {0} |-> sc.wCodes[k]], 0, kWCNum) \div kStep - kWCNum

\* More than one word of codes is in use, the first word holds sixteen codes
\* 15, whose sum is 240, and the position of element 17 is 17 * 64.
C15_Witness ==
  /\ sc # Unused /\ sc.size > kWCNum + 1
  /\ sc.wCodes[0] = BitIdx /\ sumWCodes(sc.wCodes[0]) = 240
  /\ calcBitPos(sc.wCodes, kWCNum + 1) = (kWCNum + 1) * 64

\* The width the spliced sequence has at index i: the old widths before
\* tgtIdxBeg, the source widths in the inserted range, the old widths of the
\* tail after it.
SplicedW(i) ==
  LET a == scEnv.splice
  IN IF i < a.tgtIdxBeg THEN StepCode_readW(scOld, i)
     ELSE IF i < a.tgtIdxBeg + a.srcLen THEN readW(a.src, a.srcIdxBeg + (i - a.tgtIdxBeg))
     ELSE StepCode_readW(scOld, i - a.srcLen + a.tgtLen)

\* C13: changeWCodesAndValPos runs without a failed assertion and without an
\* access outside the arrays; afterwards size = old size - tgtLen + srcLen,
\* bitSize = old bitSize - delBitLen + insBitLen, the widths are those of
\* the spliced sequence, and every element after the replaced range reads
\* the value it read before.
C13_SpliceIsReference ==
  scEnv.splice.done =>
     LET a == scEnv.splice
     IN /\ sc.ok /\ ~sc.oob
        /\ sc.size = scOld.size - a.tgtLen + a.srcLen
        /\ sc.bitSize = scOld.bitSize - a.delBitLen + a.insBitLen
        /\ \A i \in 0..(sc.size - 1) : StepCode_readW(sc, i) = SplicedW(i)
        /\ \A i \in (a.tgtIdxBeg + a.srcLen)..(sc.size - 1) :
              StepCode_read(sc, i) = StepCode_read(scOld, i - a.srcLen + a.tgtLen)

-----------------------------------------------------------------------------
(* Specification SpecCap: one BitVec, WBitsVec or RankVec (cap.kind) built *)
(* with some capacity and then taken through any sequence of resize,       *)
(* changeCapacity, convert, clear, appendBit and shorten; cap.last is the  *)
(* last operation and its argument.                                        *)

MaxCapSize == 70

\* The sizes and capacities asked for: bits for BitVec and RankVec,
\* elements for WBitsVec.
CapSizes == {0, 1, 64, 65, MaxCapSize}
CapElems == {0, 1, 10}
CapWidths == {7, WordBits}

CapArgs == IF cap.kind = "WBitsVec" THEN CapElems ELSE CapSizes

CapSize == IF cap.kind = "RankVec" THEN RankVec_size(cap.obj) ELSE cap.obj.size
CapCapacity == IF cap.kind = "RankVec" THEN RankVec_capacity(cap.obj) ELSE cap.obj.capacity

InitCap ==
  /\ \E g \in SvGarbage :
       \/ \E n \in CapSizes :
            cap = [kind |-> "BitVec", g |-> g, last |-> [op |-> "new", n |-> n],
                   obj |-> BitVec_changeCapacity(BitVec_new, n, g)]
       \/ \E n \in CapElems, w \in CapWidths :
            cap = [kind |-> "WBitsVec", g |-> g, last |-> [op |-> "new", n |-> n],
                   obj |-> WBitsVec_new(w, n, g)]
       \/ \E n \in CapSizes :
            cap = [kind |-> "RankVec", g |-> g, last |-> [op |-> "new", n |-> n],
                   obj |-> RankVec_new(n, g)]
  /\ mem = Unused /\ mv = Unused
  /\ rv = Unused /\ rvEnv = Unused /\ rvOld = Unused
  /\ sv = Unused /\ svEnv = Unused /\ svOld = Unused
  /\ wv = Unused /\ wvEnv = Unused /\ wvOld = Unused
  /\ wb = Unused
  /\ sc = Unused /\ scEnv = Unused /\ scOld = Unused
  /\ cp = Unused

CapResize ==
  /\ cap.kind \in {"BitVec", "WBitsVec"}
  /\ \E n \in CapArgs :
       cap' = [cap EXCEPT !.last = [op |-> "resize", n |-> n],
                          !.obj = IF cap.kind = "BitVec"
                                  THEN BitVec_resize(@, n, cap.g)
                                  ELSE WBitsVec_resize(@, n, cap.g)]
  /\ UNCHANGED <<mem, mv, rv, rvEnv, rvOld, sv, svEnv, svOld, wv, wvEnv, wvOld, wb, sc, scEnv, scOld, cp>>

CapChangeCapacity ==
  /\ \E n \in CapArgs :
       cap' = [cap EXCEPT !.last = [op |-> "changeCapacity", n |-> n],
                          !.obj = CASE cap.kind = "BitVec" -> BitVec_changeCapacity(@, n, cap.g)
                                    [] cap.kind = "WBitsVec" -> WBitsVec_changeCapacity(@, n, cap.g)
                                    [] OTHER -> RankVec_changeCapacity(@, n, cap.g)]
  /\ UNCHANGED <<mem, mv, rv, rvEnv, rvOld, sv, svEnv, svOld, wv, wvEnv, wvOld, wb, sc, scEnv, scOld, cp>>

CapConvert ==
  /\ cap.kind = "WBitsVec"
  /\ \E w \in CapWidths, n \in CapArgs, doShrink \in BOOLEAN :
       cap' = [cap EXCEPT !.last = [op |-> "convert", n |-> n],
                          !.obj = WBitsVec_convert(@, w, n, doShrink, cap.g)]
  /\ UNCHANGED <<mem, mv, rv, rvEnv, rvOld, sv, svEnv, svOld, wv, wvEnv, wvOld, wb, sc, scEnv, scOld, cp>>

CapClear ==
  /\ cap' = [cap EXCEPT !.last = [op |-> "clear", n |-> 0],
                        !.obj = CASE cap.kind = "BitVec" -> BitVec_clear(@)
                                  [] cap.kind = "WBitsVec" -> WBitsVec_clear(@)
                                  [] OTHER -> RankVec_clear(@, cap.g)]
  /\ UNCHANGED <<mem, mv, rv, rvEnv, rvOld, sv, svEnv, svOld, wv, wvEnv, wvOld, wb, sc, scEnv, scOld, cp>>

\* appendBit under its precondition size < capacity, up to MaxCapSize bits;
\* the bit appended at position i is 1 when i is a multiple of 3.
CapAppendBit ==
  /\ cap.kind = "RankVec"
  /\ RankVec_size(cap.obj) < RankVec_capacity(cap.obj)
  /\ RankVec_size(cap.obj) < MaxCapSize
  /\ cap' = [cap EXCEPT !.last = [op |-> "appendBit", n |-> RankVec_size(cap.obj)],
                        !.obj = appendBit(@, RankVec_size(cap.obj) % 3 = 0, cap.g)]
  /\ UNCHANGED <<mem, mv, rv, rvEnv, rvOld, sv, svEnv, svOld, wv, wvEnv, wvOld, wb, sc, scEnv, scOld, cp>>

CapShorten ==
  /\ cap.kind = "RankVec"
  /\ \E n \in CapSizes :
       cap' = [cap EXCEPT !.last = [op |-> "shorten", n |-> n],
                          !.obj = shorten(@, n, cap.g)]
  /\ UNCHANGED <<mem, mv, rv, rvEnv, rvOld, sv, svEnv, svOld, wv, wvEnv, wvOld, wb, sc, scEnv, scOld, cp>>

NextCap ==
  \/ CapResize \/ CapChangeCapacity \/ CapConvert
  \/ CapClear \/ CapAppendBit \/ CapShorten

SpecCap == InitCap /\ [][NextCap]_vars

-----------------------------------------------------------------------------
(* Specification SpecSo: a StepCode<kMaxNum> under append, clear,          *)
(* changeBitCapacity and changeWCodesAndValPos in any order, each called   *)
(* with its documented preconditions (the caller raises the capacity       *)
(* before a call that needs more), from StepCode(0).  scEnv.vs are the    *)
(* values appended since the last clear or splice, scOld the StepCode      *)
(* before the last clear.                                                  *)

\* clear()
StepCode_clear(s) == [s EXCEPT !.size = 0]

\* How many times the model clears or splices, in all.
MaxSoOps == 2

SoPatterns == {"steps", "wide"}

\* The sizes at which the model clears.
SoClearSizes == {1, kWCNum + 1}

\* The sizes at which the model splices.
SoSpliceSizes == {4, kWCNum + 1}

InitSo ==
  /\ \E p \in SoPatterns, w \in ScGarbage :
       /\ scEnv = [p |-> p, g |-> [w |-> w], wc |-> w, vs |-> <<>>, last |-> "new",
                   clears |-> 0, splices |-> 0, pure |-> TRUE]
       /\ sc = StepCode_new(0, [w |-> w], w)
  /\ scOld = Unused
  /\ mem = Unused /\ mv = Unused
  /\ rv = Unused /\ rvEnv = Unused /\ rvOld = Unused
  /\ sv = Unused /\ svEnv = Unused /\ svOld = Unused
  /\ wv = Unused /\ wvEnv = Unused /\ wvOld = Unused
  /\ wb = Unused
  /\ cap = Unused
  /\ cp = Unused

\* The capacity is raised when the value does not fit, then append(val);
\* the values appended after a clear are the pattern one step further.
SoAppend ==
  /\ sc.size < kMaxNum
  /\ LET val == ScVal(scEnv.p, sc.size + scEnv.clears)
         newBvSize == sc.bitSize + calcSteppedW(val)
         s1 == IF newBvSize > sc.bitCapacity
               THEN StepCode_changeBitCapacity(sc, (newBvSize * 5) \div 4, scEnv.g)
               ELSE sc
     IN /\ sc' = StepCode_append(s1, val)
        /\ scEnv' = [scEnv EXCEPT !.vs = Append(@, val), !.last = "append"]
  /\ UNCHANGED <<mem, mv, rv, rvEnv, rvOld, sv, svEnv, svOld, wv, wvEnv, wvOld, wb, scOld, cap, cp>>

SoClear ==
  /\ scEnv.clears + scEnv.splices < MaxSoOps
  /\ sc.size \in SoClearSizes
  /\ scOld' = sc
  /\ sc' = StepCode_clear(sc)
  /\ scEnv' = [scEnv EXCEPT !.vs = <<>>, !.last = "clear", !.clears = @ + 1,
                            !.pure = TRUE]
  /\ UNCHANGED <<mem, mv, rv, rvEnv, rvOld, sv, svEnv, svOld, wv, wvEnv, wvOld, wb, cap, cp>>

\* changeBitCapacity(givenCapacity): shrink to fit, or a capacity given.
SoChangeBitCapacity ==
  /\ scEnv.last \in {"append", "clear"}
  /\ sc.size \in {0, kWCNum + 1}
  /\ \E givenCapacity \in {0, 256} :
       sc' = StepCode_changeBitCapacity(sc, givenCapacity, scEnv.g)
  /\ scEnv' = [scEnv EXCEPT !.last = "reserve"]
  /\ UNCHANGED <<mem, mv, rv, rvEnv, rvOld, sv, svEnv, svOld, wv, wvEnv, wvOld, wb, scOld, cap, cp>>

\* changeWCodesAndValPos on the StepCode itself, the position and the
\* lengths computed from the codes and the capacity raised if needed.
SoSplice ==
  /\ scEnv.clears + scEnv.splices < MaxSoOps
  /\ sc.size \in SoSpliceSizes
  /\ \E from \in {<<wCodeSrc, 1>>}, srcLen \in {0, 5},
        tgtIdxBeg \in {0, sc.size}, tgtLen \in {0, 3} :
       /\ from[2] + srcLen <= kWCNum
       /\ tgtIdxBeg + tgtLen <= sc.size
       /\ sc.size - tgtLen + srcLen < kMaxNum
       /\ LET src == from[1]
              srcIdxBeg == from[2]
              bitPos == calcBitPos(sc.wCodes, tgtIdxBeg)
              insBitLen == sumW(src, srcIdxBeg, srcIdxBeg + srcLen)
              delBitLen == sumW(sc.wCodes, tgtIdxBeg, tgtIdxBeg + tgtLen)
              newBvSize == sc.bitSize + insBitLen - delBitLen
              c1 == IF insBitLen > delBitLen /\ newBvSize > sc.bitCapacity
                    THEN StepCode_changeBitCapacity(sc, newBvSize, scEnv.g)
                    ELSE sc
          IN sc' = changeWCodesAndValPos(c1, src, srcIdxBeg, srcLen, tgtIdxBeg, tgtLen,
                                         bitPos, insBitLen, delBitLen)
  /\ scEnv' = [scEnv EXCEPT !.vs = <<>>, !.last = "splice", !.splices = @ + 1,
                            !.pure = FALSE]
  /\ UNCHANGED <<mem, mv, rv, rvEnv, rvOld, sv, svEnv, svOld, wv, wvEnv, wvOld, wb, scOld, cap, cp>>

NextSo == SoAppend \/ SoClear \/ SoChangeBitCapacity \/ SoSplice

SpecSo == InitSo /\ [][NextSo]_vars

\* C30: right after clear() on a non-empty StepCode the size is 0 and the
\* capacity is what it was; the values appended from then on are read back,
\* read(i) = v_i for every i < size, and bitSize is the sum of readW(j) over
\* the elements held.
C30_ClearThenAppend ==
  (sc # Unused /\ scEnv.clears > 0 /\ scEnv.pure) =>
     /\ scEnv.last = "clear" => (sc.size = 0 /\ sc.bitCapacity = scOld.bitCapacity)
     /\ sc.size = Len(scEnv.vs)
     /\ \A i \in 0..(sc.size - 1) : StepCode_read(sc, i) = scEnv.vs[i + 1]
     /\ sc.size > 0 => sc.bitSize = sumW(sc.wCodes, 0, sc.size)

\* The part of C30 that is about clear() alone.
C30_ClearResetsSize ==
  (sc # Unused /\ scEnv.last = "clear") =>
     (sc.size = 0 /\ sc.bitCapacity = scOld.bitCapacity)

C30_ReadAfterClear ==
  (sc # Unused /\ scEnv.clears > 0 /\ scEnv.pure) =>
     \A i \in 0..(sc.size - 1) : StepCode_read(sc, i) = scEnv.vs[i + 1]

-----------------------------------------------------------------------------
(* Specification SpecWo: a WBitsVec filled element by element, then one    *)
(* mvWBA between two ranges of this vector (both iterators come from       *)
(* getItrAt of the same vector, so the bit-widths are the same and both    *)
(* word pointers point into one array).  wvOld is the vector before the    *)
(* move.                                                                   *)

\* mvWBA_SameW with src.array_ == tgt.array_.
mvWBA_SameW_own(array, src, tgt, num) ==
  LET r == mvBits(AssertW([m |-> array, oob |-> FALSE, ok |-> TRUE], src.w = tgt.w),
                  src.pos \div 64, src.pos % 64,
                  tgt.pos \div 64, tgt.pos % 64,
                  num * src.w)
  IN [array |-> r.m, ok |-> r.ok, oob |-> r.oob]

\* The number of elements of the vector.
MaxWoSize == 12

\* The bit-widths: twelve elements in one word, in three words, in twelve.
WoWidths == {5, 13, WordBits}

\* The j-th element under pattern p: a bit that walks and the parity of j in
\* bit 0, or every third bit from j on.
WoPatterns == {"walk", "thirds"}

WoVal(p, w, j) ==
  IF p = "walk" THEN {(j + 1) % w} \cup (IF j % 2 = 1 THEN {0} ELSE {})
  ELSE {b \in 0..(w - 1) : (b + j) % 3 = 0}

InitWo ==
  /\ \E w \in WoWidths, p \in WoPatterns, g \in {[w |-> {}, c |-> 0, o |-> 0]} :
       /\ wv = WBitsVec_new(w, 0, g)
       /\ wvEnv = [g |-> g, p |-> p, move |-> NoMove]
  /\ wvOld = Unused
  /\ mem = Unused /\ mv = Unused
  /\ rv = Unused /\ rvEnv = Unused /\ rvOld = Unused
  /\ sv = Unused /\ svEnv = Unused /\ svOld = Unused
  /\ wb = Unused
  /\ sc = Unused /\ scEnv = Unused /\ scOld = Unused
  /\ cap = Unused
  /\ cp = Unused

\* resize(size + 1) and write(val, size)
WoPush ==
  /\ wvEnv.move = NoMove
  /\ wv.size < MaxWoSize
  /\ wv' = WBitsVec_writeWord(WBitsVec_resize(wv, wv.size + 1, wvEnv.g),
                              WoVal(wvEnv.p, wv.w, wv.size), wv.size)
  /\ UNCHANGED <<mem, mv, rv, rvEnv, rvOld, sv, svEnv, svOld, wvEnv, wvOld, wb, sc, scEnv, scOld, cap, cp>>

\* mvWBA(wv.getItrAt(srcBeg), wv.getItrAt(tgtBeg), num) on the full vector.
WoMove ==
  /\ wvEnv.move = NoMove
  /\ wv.size = MaxWoSize
  /\ \E srcBeg \in 0..(MaxWoSize - 1), tgtBeg \in 0..(MaxWoSize - 1), num \in 1..MaxWoSize :
       /\ srcBeg # tgtBeg
       /\ srcBeg + num <= wv.size
       /\ tgtBeg + num <= wv.size
       /\ LET r == mvWBA_SameW_own(wv.array, WBitsVec_getItrAt(wv, srcBeg),
                                   WBitsVec_getItrAt(wv, tgtBeg), num)
          IN /\ wv' = [wv EXCEPT !.array = r.array]
             /\ wvEnv' = [wvEnv EXCEPT !.move =
                            [num |-> num, srcBeg |-> srcBeg, tgtBeg |-> tgtBeg,
                             ok |-> r.ok, oob |-> r.oob]]
  /\ wvOld' = wv
  /\ UNCHANGED <<mem, mv, rv, rvEnv, rvOld, sv, svEnv, svOld, wb, sc, scEnv, scOld, cap, cp>>

NextWo == WoPush \/ WoMove

SpecWo == InitWo /\ [][NextWo]_vars

\* C29: a move of num elements between two ranges of one vector, that
\* overlap or not, the source before or after the target at any distance,
\* runs to its end (no assertion fails, no access outside the array), and
\* every element of the target range then reads as the element of the
\* source range read before the move.
C29_MoveWithinVector ==
  (wv # Unused /\ wvEnv.move # NoMove) =>
     /\ wvEnv.move.ok /\ ~wvEnv.move.oob
     /\ \A k \in 0..(wvEnv.move.num - 1) :
          WBitsVec_readWord(wv, wvEnv.move.tgtBeg + k)
            = WBitsVec_readWord(wvOld, wvEnv.move.srcBeg + k)

\* The element part of C29 alone, with assertions compiled out.
C29_MovedElements ==
  (wv # Unused /\ wvEnv.move # NoMove) =>
     \A k \in 0..(wvEnv.move.num - 1) :
        WBitsVec_readWord(wv, wvEnv.move.tgtBeg + k)
          = WBitsVec_readWord(wvOld, wvEnv.move.srcBeg + k)

\* The element part of C29 for the moves whose ranges do not overlap.
C29_MovedElementsDisjoint ==
  (wv # Unused /\ wvEnv.move # NoMove
     /\ (wvEnv.move.srcBeg + wvEnv.move.num <= wvEnv.move.tgtBeg
           \/ wvEnv.move.tgtBeg + wvEnv.move.num <= wvEnv.move.srcBeg)) =>
     \A k \in 0..(wvEnv.move.num - 1) :
        WBitsVec_readWord(wv, wvEnv.move.tgtBeg + k)
          = WBitsVec_readWord(wvOld, wvEnv.move.srcBeg + k)

-----------------------------------------------------------------------------
(* Copy and move of BitVec, WBitsVec, RankVec and StepCode.  A copy        *)
(* operator gives [this, ok, oob]: the destination, whether every          *)
(* assertion held, whether an access left the arrays.  A move operator     *)
(* gives [this, other]: the destination and what is left of the source.    *)

\* BitVec(const BitVec & other)
BitVec_copy(other, g) ==
  LET fresh == [array |-> NullArray, capacity |-> 0, size |-> other.size]
      b1 == BitVec_changeCapacity(fresh, other.capacity, g)
  IN [this |-> IF fresh.size > 0
               THEN [b1 EXCEPT !.array = cpBytes(other.array, @, (fresh.size + 7) \div 8)]
               ELSE fresh,
      ok |-> TRUE, oob |-> FALSE]

\* BitVec::operator=(const BitVec & other)
BitVec_assign(this, other, g) ==
  LET b1 == BitVec_resize(BitVec_clear(this), other.size, g)
  IN [this |-> IF other.size > 0
               THEN [b1 EXCEPT !.array = cpBytes(other.array, @, (b1.size + 7) \div 8)]
               ELSE b1,
      ok |-> TRUE, oob |-> FALSE]

\* BitVec(BitVec && other)
BitVec_move(other) ==
  [this |-> [array |-> other.array, capacity |-> other.capacity, size |-> other.size],
   other |-> [other EXCEPT !.array = NullArray, !.size = 0, !.capacity = 0]]

\* The move that leaves the source its size and capacity.
BitVec_moveAssign_sourceKept(this, other, g) ==
  [this |-> [array |-> other.array, capacity |-> other.capacity, size |-> other.size],
   other |-> [other EXCEPT !.array = NullArray]]

\* BitVec::operator=(BitVec && other); the array of this is freed first.
BitVec_moveAssign(this, other, g) ==
  LET freed == BitVec_changeCapacity(BitVec_clear(this), 0, g)
  IN [this |-> [freed EXCEPT !.array = other.array, !.capacity = other.capacity,
                             !.size = other.size],
      other |-> [other EXCEPT !.array = NullArray, !.size = 0, !.capacity = 0]]

\* The bits::mvBits(other.array_, 0, array_, 0, size_ * w_) of the copies.
WBitsVec_cpArray(v, other) ==
  LET r == mvBits([m |-> TwoArrays(other.array, v.array), oob |-> FALSE, ok |-> TRUE],
                  0, 0, SecondBase(other.array), 0, v.size * v.w)
  IN [this |-> [v EXCEPT !.array = SecondArray(r.m, other.array, v.array)],
      ok |-> r.ok, oob |-> r.oob]

\* WBitsVec(const WBitsVec & other)
WBitsVec_copy(other, g) ==
  LET fresh == [array |-> NullArray, capacity |-> 0, size |-> other.size,
                w |-> other.w, oob |-> g.o]
  IN IF fresh.size > 0
     THEN WBitsVec_cpArray(WBitsVec_changeCapacity(fresh, other.capacity, g), other)
     ELSE [this |-> fresh, ok |-> TRUE, oob |-> FALSE]

\* WBitsVec::operator=(const WBitsVec & other)
WBitsVec_assign(this, other, g) ==
  LET t1 == WBitsVec_changeCapacity(WBitsVec_clear(this), 0, g)
      t2 == [t1 EXCEPT !.size = other.size, !.w = other.w]
      t3 == WBitsVec_changeCapacity(t2, other.capacity, g)
  IN IF t3.size > 0
     THEN WBitsVec_cpArray(t3, other)
     ELSE [this |-> t3, ok |-> TRUE, oob |-> FALSE]

\* WBitsVec(WBitsVec && other)
WBitsVec_move(other) ==
  [this |-> other,
   other |-> [other EXCEPT !.array = NullArray, !.size = 0, !.capacity = 0]]

\* WBitsVec::operator=(WBitsVec && other)
WBitsVec_moveAssign(this, other, g) ==
  LET freed == WBitsVec_changeCapacity(WBitsVec_clear(this), 0, g)
  IN [this |-> [freed EXCEPT !.array = other.array, !.capacity = other.capacity,
                             !.size = other.size, !.w = other.w],
      other |-> [other EXCEPT !.array = NullArray, !.size = 0, !.capacity = 0]]

\* The two loops of the RankVec copies: the counters of the blocks in use.
RankVec_cpCounters(blockT, blockM, other) ==
  LET size == RankVec_size(other)
      lenT == (size + BSIZE_T - 1) \div BSIZE_T
      lenM == (size + BSIZE_M - 1) \div BSIZE_M - size \div BSIZE_T
  IN [blockT |-> [i \in DOMAIN blockT |-> IF i < lenT THEN other.blockT[i] ELSE blockT[i]],
      blockM |-> [i \in DOMAIN blockM |-> IF i < lenM THEN other.blockM[i] ELSE blockM[i]],
      oob |-> \/ \E i \in 0..(lenT - 1) : i \notin DOMAIN blockT \/ i \notin DOMAIN other.blockT
              \/ \E i \in 0..(lenM - 1) : i \notin DOMAIN blockM \/ i \notin DOMAIN other.blockM]

\* RankVec(const RankVec & other)
RankVec_copy(other, g) ==
  LET bv == BitVec_copy(other.bv, g).this
      capacity == bv.capacity
      lenT == (capacity + BSIZE_T - 1) \div BSIZE_T
      lenM == (capacity + BSIZE_M - 1) \div BSIZE_M - capacity \div BSIZE_T
      c == RankVec_cpCounters(ReallocCounters(NullCounters, lenT, g),
                              ReallocCounters(NullCounters, lenM, g), other)
  IN IF RankVec_size(other) > 0
     THEN [this |-> [bv |-> bv, blockT |-> c.blockT, blockM |-> c.blockM],
           ok |-> lenM > 0 /\ lenT > 0, oob |-> c.oob]
     ELSE [this |-> [bv |-> bv, blockT |-> NullCounters, blockM |-> NullCounters],
           ok |-> TRUE, oob |-> FALSE]

\* RankVec::operator=(const RankVec & other); realloc_AbortOnFail asserts
\* n > 0, and a block of no counters is what it is taken to give for n = 0.
RankVec_assign(this, other, g) ==
  LET freed == RankVec_changeCapacity(RankVec_clear(this, g), 0, g)
      bv == BitVec_assign(freed.bv, other.bv, g).this
      capacity == RankVec_capacity(other)
      lenT == (capacity + BSIZE_T - 1) \div BSIZE_T
      lenM == (capacity + BSIZE_M - 1) \div BSIZE_M - capacity \div BSIZE_T
      c == RankVec_cpCounters(ReallocCounters(freed.blockT, lenT, g),
                              ReallocCounters(freed.blockM, lenM, g), other)
  IN [this |-> [bv |-> bv, blockT |-> c.blockT, blockM |-> c.blockM],
      ok |-> lenM > 0 /\ lenT > 0, oob |-> c.oob]

\* RankVec(RankVec && other)
RankVec_move(other) ==
  LET b == BitVec_move(other.bv)
  IN [this |-> [bv |-> b.this, blockT |-> other.blockT, blockM |-> other.blockM],
      other |-> [bv |-> b.other, blockT |-> NullCounters, blockM |-> NullCounters]]

\* RankVec::operator=(RankVec && other)
RankVec_moveAssign(this, other, g) ==
  LET freed == RankVec_changeCapacity(RankVec_clear(this, g), 0, g)
      b == BitVec_moveAssign(freed.bv, other.bv, g)
  IN [this |-> [bv |-> b.this, blockT |-> other.blockT, blockM |-> other.blockM],
      other |-> [bv |-> b.other, blockT |-> NullCounters, blockM |-> NullCounters]]

\* StepCode::operator=(const StepCode & other): cpStepCodeCore on this.
StepCode_assign(this, other, g) ==
  IF other.size > 0
  THEN LET s1 == StepCode_setBitCapacity(this, Max2(other.bitSize, this.bitSize), g)
       IN [this |-> [s1 EXCEPT !.vals = cpBytes(other.vals, @, (other.bitSize + 7) \div 8),
                               !.wCodes = cpBytes(other.wCodes, @,
                                                  (other.size * kWCBits + 7) \div 8),
                               !.size = other.size,
                               !.bitSize = other.bitSize],
           ok |-> TRUE, oob |-> FALSE]
  ELSE [this |-> [this EXCEPT !.size = 0, !.bitSize = 0], ok |-> TRUE, oob |-> FALSE]

\* mvStepCodeCore into a StepCode whose wCodes_ hold wCodes, followed by the
\* reset of the scalars of other.
StepCode_mvStepCodeCore(wCodes, other) ==
  [this |-> [other EXCEPT !.wCodes = IF other.size > 0
                                     THEN cpBytes(other.wCodes, wCodes,
                                                  (other.size * kWCBits + 7) \div 8)
                                     ELSE wCodes],
   other |-> [other EXCEPT !.vals = NullArray, !.bitCapacity = 0, !.bitSize = 0,
                           !.size = 0]]

\* StepCode(StepCode && other): wCodes_ of the new object hold wc.
StepCode_move(other, wc) ==
  StepCode_mvStepCodeCore([i \in DOMAIN other.wCodes |-> wc], other)

\* StepCode::operator=(StepCode && other)
StepCode_moveAssign(this, other) == StepCode_mvStepCodeCore(this.wCodes, other)

-----------------------------------------------------------------------------
(* Specification SpecCp: an object C1 of one of the four containers is     *)
(* filled element by element; at some sizes it is copied or moved into C2, *)
(* by the constructor or by the assignment to a C2 that is empty or holds  *)
(* three elements; after a copy one of the two gets one more element.      *)
(* cp.snap is C1 right before the copy or the move.                        *)

CpKinds == {"BitVec", "WBitsVec", "RankVec", "StepCode"}

\* The largest size C1 is filled to, and the sizes at which it is copied or
\* moved.
MaxCpBits == BSIZE_T + 1
MaxCpElems == kWCNum + 1

CpMax(kind) == IF kind \in {"BitVec", "RankVec"} THEN MaxCpBits ELSE MaxCpElems

CpSizes(kind) ==
  IF kind \in {"BitVec", "RankVec"}
  THEN {0, 1, BSIZE_M, BSIZE_M + 1, BSIZE_T, MaxCpBits}
  ELSE {0, 1, 5, kWCNum, MaxCpElems}

CpSize(kind, obj) == IF kind = "RankVec" THEN RankVec_size(obj) ELSE obj.size

CpCapacity(kind, obj) ==
  CASE kind = "RankVec" -> RankVec_capacity(obj)
    [] kind = "StepCode" -> obj.bitCapacity
    [] OTHER -> obj.capacity

\* One more element, the j-th of the pattern, at the end of obj; the
\* capacity is raised first where the container does not do it itself.
CpPush(kind, obj, g, j) ==
  CASE kind = "BitVec" ->
         BitVec_writeBit(BitVec_resize(obj, obj.size + 1, g), j % 3 = 0, obj.size)
    [] kind = "WBitsVec" ->
         WBitsVec_writeWord(WBitsVec_resize(obj, obj.size + 1, g),
                            WoVal("thirds", obj.w, j), obj.size)
    [] kind = "RankVec" ->
         appendBit(IF RankVec_size(obj) = RankVec_capacity(obj)
                   THEN RankVec_changeCapacity(obj, RankVec_size(obj) + BSIZE_M, g)
                   ELSE obj,
                   j % 3 = 0, g)
    [] OTHER ->
         LET val == ScVal("steps", j)
             newBvSize == obj.bitSize + calcSteppedW(val)
         IN StepCode_append(IF newBvSize > obj.bitCapacity
                            THEN StepCode_changeBitCapacity(obj, (newBvSize * 5) \div 4, g)
                            ELSE obj,
                            val)

CpNew(kind, w, g) ==
  CASE kind = "BitVec" -> BitVec_new
    [] kind = "WBitsVec" -> WBitsVec_new(w, 0, g)
    [] kind = "RankVec" -> RankVec_new(0, g)
    [] OTHER -> StepCode_new(0, g, g.w)

\* Everything the interface answers about obj: the size, every element,
\* and for a RankVec every rank and every select.
CpQueries(kind, obj) ==
  CASE kind = "BitVec" ->
         [size |-> obj.size,
          read |-> [i \in 0..(obj.size - 1) |-> BitVec_readBit(obj, i)]]
    [] kind = "WBitsVec" ->
         [size |-> obj.size, w |-> obj.w,
          read |-> [i \in 0..(obj.size - 1) |-> WBitsVec_readWord(obj, i)]]
    [] kind = "RankVec" ->
         [size |-> RankVec_size(obj),
          read |-> [i \in 0..(RankVec_size(obj) - 1) |-> RankVec_readBit(obj, i)],
          rank |-> [i \in 0..(RankVec_size(obj) - 1) |-> rank_1(obj, i)],
          select_1 |-> [r \in 1..getNum_1(obj) |-> select_1(obj, r)],
          select_0 |-> [r \in 1..getNum_0(obj) |-> select_0(obj, r)]]
    [] OTHER ->
         [size |-> obj.size, bitSize |-> obj.bitSize,
          read |-> [i \in 0..(obj.size - 1) |-> StepCode_read(obj, i)],
          readW |-> [i \in 0..(obj.size - 1) |-> StepCode_readW(obj, i)]]

InitCp ==
  /\ \E kind \in CpKinds, g \in SvGarbage, w \in {13, WordBits}, pre \in {0, 3} :
       /\ kind # "WBitsVec" => w = WordBits
       /\ cp = [kind |-> kind, g |-> g, pre |-> pre,
                c1 |-> CpNew(kind, w, g),
                c2 |-> IF pre = 0 THEN CpNew(kind, w, g)
                       ELSE CpPush(kind, CpPush(kind, CpPush(kind, CpNew(kind, w, g), g, 1),
                                                g, 2), g, 3),
                snap |-> Unused, op |-> "none", mut |-> "none",
                ok |-> TRUE, oob |-> FALSE]
  /\ mem = Unused /\ mv = Unused
  /\ rv = Unused /\ rvEnv = Unused /\ rvOld = Unused
  /\ sv = Unused /\ svEnv = Unused /\ svOld = Unused
  /\ wv = Unused /\ wvEnv = Unused /\ wvOld = Unused
  /\ wb = Unused
  /\ sc = Unused /\ scEnv = Unused /\ scOld = Unused
  /\ cap = Unused

CpAppend ==
  /\ cp.op = "none"
  /\ CpSize(cp.kind, cp.c1) < CpMax(cp.kind)
  /\ cp' = [cp EXCEPT !.c1 = CpPush(cp.kind, @, cp.g, CpSize(cp.kind, @))]
  /\ UNCHANGED <<mem, mv, rv, rvEnv, rvOld, sv, svEnv, svOld, wv, wvEnv, wvOld, wb, sc, scEnv, scOld, cap>>

\* C2(C1) when C2 is new, C2 = C1 otherwise.
CpCopy ==
  /\ cp.op = "none"
  /\ CpSize(cp.kind, cp.c1) \in CpSizes(cp.kind)
  /\ LET r == IF cp.pre = 0
              THEN CASE cp.kind = "BitVec" -> BitVec_copy(cp.c1, cp.g)
                     [] cp.kind = "WBitsVec" -> WBitsVec_copy(cp.c1, cp.g)
                     [] cp.kind = "RankVec" -> RankVec_copy(cp.c1, cp.g)
                     [] OTHER -> [this |-> StepCode_copy(cp.c1, cp.g, cp.g.w),
                                  ok |-> TRUE, oob |-> FALSE]
              ELSE CASE cp.kind = "BitVec" -> BitVec_assign(cp.c2, cp.c1, cp.g)
                     [] cp.kind = "WBitsVec" -> WBitsVec_assign(cp.c2, cp.c1, cp.g)
                     [] cp.kind = "RankVec" -> RankVec_assign(cp.c2, cp.c1, cp.g)
                     [] OTHER -> StepCode_assign(cp.c2, cp.c1, cp.g)
     IN cp' = [cp EXCEPT !.c2 = r.this, !.snap = cp.c1,
                         !.op = IF cp.pre = 0 THEN "copy" ELSE "assign",
                         !.ok = r.ok, !.oob = r.oob]
  /\ UNCHANGED <<mem, mv, rv, rvEnv, rvOld, sv, svEnv, svOld, wv, wvEnv, wvOld, wb, sc, scEnv, scOld, cap>>

\* C2(std::move(C1)) when C2 is new, C2 = std::move(C1) otherwise.
CpMove ==
  /\ cp.op = "none"
  /\ CpSize(cp.kind, cp.c1) \in CpSizes(cp.kind)
  /\ LET r == IF cp.pre = 0
              THEN CASE cp.kind = "BitVec" -> BitVec_move(cp.c1)
                     [] cp.kind = "WBitsVec" -> WBitsVec_move(cp.c1)
                     [] cp.kind = "RankVec" -> RankVec_move(cp.c1)
                     [] OTHER -> StepCode_move(cp.c1, cp.g.w)
              ELSE CASE cp.kind = "BitVec" -> BitVec_moveAssign(cp.c2, cp.c1, cp.g)
                     [] cp.kind = "WBitsVec" -> WBitsVec_moveAssign(cp.c2, cp.c1, cp.g)
                     [] cp.kind = "RankVec" -> RankVec_moveAssign(cp.c2, cp.c1, cp.g)
                     [] OTHER -> StepCode_moveAssign(cp.c2, cp.c1)
     IN cp' = [cp EXCEPT !.c1 = r.other, !.c2 = r.this, !.snap = cp.c1,
                         !.op = IF cp.pre = 0 THEN "move" ELSE "moveAssign"]
  /\ UNCHANGED <<mem, mv, rv, rvEnv, rvOld, sv, svEnv, svOld, wv, wvEnv, wvOld, wb, sc, scEnv, scOld, cap>>

\* After a copy, one more element at the end of C1 or of C2, not the
\* element the pattern has there.
CpMutate ==
  /\ cp.op \in {"copy", "assign"}
  /\ cp.mut = "none"
  /\ \/ cp' = [cp EXCEPT !.mut = "c1",
                         !.c1 = CpPush(cp.kind, @, cp.g, CpSize(cp.kind, @) + 1)]
     \/ cp' = [cp EXCEPT !.mut = "c2",
                         !.c2 = CpPush(cp.kind, @, cp.g, CpSize(cp.kind, @) + 1)]
  /\ UNCHANGED <<mem, mv, rv, rvEnv, rvOld, sv, svEnv, svOld, wv, wvEnv, wvOld, wb, sc, scEnv, scOld, cap>>

NextCp == CpAppend \/ CpCopy \/ CpMove \/ CpMutate

SpecCp == InitCp /\ [][NextCp]_vars

\* C21: after the move constructor or the move assignment, C1 has size 0
\* and capacity 0 (bitCapacity 0 for a StepCode), and the destination has
\* the size C1 had and answers every read and every query as C1 did.
C21_MoveEmptiesSource ==
  (cp # Unused /\ cp.op \in {"move", "moveAssign"}) =>
     /\ CpSize(cp.kind, cp.c1) = 0
     /\ CpCapacity(cp.kind, cp.c1) = 0
     /\ CpQueries(cp.kind, cp.c2) = CpQueries(cp.kind, cp.snap)

\* A RankVec of more than a top block moved by assignment into a RankVec
\* that held three bits.
C21_Witness ==
  /\ cp # Unused /\ cp.op = "moveAssign" /\ cp.kind = "RankVec" /\ cp.pre > 0
  /\ RankVec_size(cp.c2) > BSIZE_T
  /\ RankVec_size(cp.c1) = 0

\* C22: the copy constructor and the copy assignment run to their end (no
\* assertion fails, no access leaves the arrays); C2 then answers every
\* query as C1, and after one of the two is changed the other answers as
\* before.
C22_CopyAnswersAlike ==
  (cp # Unused /\ cp.op \in {"copy", "assign"}) =>
     /\ cp.ok /\ ~cp.oob
     /\ cp.mut # "c2" => CpQueries(cp.kind, cp.c2) = CpQueries(cp.kind, cp.snap)
     /\ cp.mut # "c1" => CpQueries(cp.kind, cp.c1) = CpQueries(cp.kind, cp.snap)

\* C22 without the assertions: the answers alone.
C22_CopyAnswers ==
  (cp # Unused /\ cp.op \in {"copy", "assign"}) =>
     /\ cp.mut # "c2" => CpQueries(cp.kind, cp.c2) = CpQueries(cp.kind, cp.snap)
     /\ cp.mut # "c1" => CpQueries(cp.kind, cp.c1) = CpQueries(cp.kind, cp.snap)

-----------------------------------------------------------------------------
(* Specification SpecRs: a RankVec<BSIZE_T, BSIZE_M> filled bit by bit     *)
(* past its first top block and shortened; a second RankVec (rvOld) is     *)
(* then built from empty with the bits kept, and both get the same bits    *)
(* appended, which are not the bits the first one held there before.       *)

MaxRsSize == BSIZE_T + 4

\* How many bits are appended after the shortening.
MaxRsRegrow == 5

\* The sizes shortened to: around the word, the middle-block and the
\* top-block boundaries.
RsCuts == {0, 1, BSIZE_M - 2, BSIZE_M, 3 * BSIZE_M - 1, BSIZE_T - 2, BSIZE_T, BSIZE_T + 1}

\* appendBit with the capacity raised first when the vector is full.
RsPush(r, val, g) ==
  appendBit(IF RankVec_size(r) = RankVec_capacity(r)
            THEN RankVec_changeCapacity(r, ((RankVec_size(r) + 1) * 3) \div 2, g)
            ELSE r,
            val, g)

InitRs ==
  /\ \E p \in {1, 3}, g \in RvGarbage :
       /\ rvEnv = [pat |-> p, g |-> g, cut |-> -1, last |-> "new", grown |-> 0]
       /\ rv = RankVec_new(RvInitCapacity, g)
  /\ rvOld = Unused
  /\ mem = Unused /\ mv = Unused
  /\ sv = Unused /\ svEnv = Unused /\ svOld = Unused
  /\ wv = Unused /\ wvEnv = Unused /\ wvOld = Unused
  /\ wb = Unused
  /\ sc = Unused /\ scEnv = Unused /\ scOld = Unused
  /\ cap = Unused
  /\ cp = Unused

RsAppendBit ==
  /\ rvEnv.cut < 0
  /\ RankVec_size(rv) < MaxRsSize
  /\ rv' = RsPush(rv, RvBit(RankVec_size(rv)), rvEnv.g)
  /\ rvEnv' = [rvEnv EXCEPT !.last = "appendBit"]
  /\ UNCHANGED <<mem, mv, rvOld, sv, svEnv, svOld, wv, wvEnv, wvOld, wb, sc, scEnv, scOld, cap, cp>>

\* shorten(n); the second vector is constructed, with what the allocator
\* hands out being anything.
RsShorten ==
  /\ rvEnv.cut < 0
  /\ RankVec_size(rv) = MaxRsSize
  /\ \E n \in RsCuts, g \in RvGarbage :
       /\ rv' = shorten(rv, n, rvEnv.g)
       /\ rvOld' = RankVec_new(RvInitCapacity, g)
       /\ rvEnv' = [rvEnv EXCEPT !.cut = n, !.last = "shorten"]
  /\ UNCHANGED <<mem, mv, sv, svEnv, svOld, wv, wvEnv, wvOld, wb, sc, scEnv, scOld, cap, cp>>

\* The second vector gets the next of the bits the first one kept.
RsRebuild ==
  /\ rvEnv.cut >= 0
  /\ RankVec_size(rvOld) < rvEnv.cut
  /\ rvOld' = RsPush(rvOld, RankVec_readBit(rv, RankVec_size(rvOld)) = 1, rvEnv.g)
  /\ UNCHANGED <<mem, mv, rv, rvEnv, sv, svEnv, svOld, wv, wvEnv, wvOld, wb, sc, scEnv, scOld, cap, cp>>

\* The same bit appended to both.
RsRegrow ==
  /\ rvEnv.cut >= 0
  /\ RankVec_size(rvOld) = RankVec_size(rv)
  /\ rvEnv.grown < MaxRsRegrow
  /\ rv' = RsPush(rv, RvBit(RankVec_size(rv)), rvEnv.g)
  /\ rvOld' = RsPush(rvOld, RvBit(RankVec_size(rv)), rvEnv.g)
  /\ rvEnv' = [rvEnv EXCEPT !.grown = @ + 1, !.last = "appendBit"]
  /\ UNCHANGED <<mem, mv, sv, svEnv, svOld, wv, wvEnv, wvOld, wb, sc, scEnv, scOld, cap, cp>>

NextRs == RsAppendBit \/ RsShorten \/ RsRebuild \/ RsRegrow

SpecRs == InitRs /\ [][NextRs]_vars

\* The number of 1-bits among the live bits of r at positions [lo, hi).
RsOnes(r, lo, hi) ==
  Cardinality({i \in lo..(Min2(hi, RankVec_size(r)) - 1) : (i % 64) \in r.bv.array[i \div 64]})

\* C23: after every appendBit, blockT_[j] of every top block j that holds a
\* live position is the number of 1-bits among the live bits before
\* (j + 1) * BSIZE_T, and blockM_ of every middle block that holds a live
\* position and is not the last of its top block is the number of 1-bits
\* from the start of its top block to the live end of the middle block; the
\* last middle block of a top block has no entry.
C23_BlockCounters ==
  (rv # Unused /\ rvEnv.last = "appendBit") =>
     LET size == RankVec_size(rv)
         perT == BSIZE_T \div BSIZE_M
     IN /\ \A j \in 0..((size - 1) \div BSIZE_T) :
              rv.blockT[j] = RsOnes(rv, 0, (j + 1) * BSIZE_T)
        /\ \A k \in 0..((size - 1) \div BSIZE_M) :
              k % perT # perT - 1 =>
                 rv.blockM[k - (k \div perT)]
                   = RsOnes(rv, (k \div perT) * BSIZE_T, (k + 1) * BSIZE_M)
        /\ Cardinality(DOMAIN rv.blockM)
             = (RankVec_capacity(rv) + BSIZE_M - 1) \div BSIZE_M
                 - RankVec_capacity(rv) \div BSIZE_T

\* A bit appended in the second top block after the vector was shortened
\* into the last middle block of the first, with 1-bits in both.
C23_Witness ==
  /\ rv # Unused /\ rvEnv.last = "appendBit" /\ rvEnv.cut = BSIZE_T - 2
  /\ RankVec_size(rv) = BSIZE_T + 1
  /\ rv.blockT[1] > rv.blockT[0] /\ rv.blockT[0] > rv.blockM[2]

\* Every answer of r: rank, select, pred and succ for both bit values.
RsQueries(r) ==
  [size |-> RankVec_size(r),
   rank_1 |-> [pos \in 0..(RankVec_size(r) - 1) |-> rank_1(r, pos)],
   rank_0 |-> [pos \in 0..(RankVec_size(r) - 1) |-> rank_0(r, pos)],
   select_1 |-> [k \in 1..getNum_1(r) |-> select_1(r, k)],
   select_0 |-> [k \in 1..getNum_0(r) |-> select_0(r, k)],
   pred_1 |-> [val \in 0..(RankVec_size(r) + 64) |-> pred_1(r, val)],
   pred_0 |-> [val \in 0..(RankVec_size(r) + 64) |-> pred_0(r, val)],
   succ_1 |-> [val \in 0..(RankVec_size(r) + 64) |-> succ_1(r, val)],
   succ_0 |-> [val \in 0..(RankVec_size(r) + 64) |-> succ_0(r, val)]]

\* C28: after shorten(n) and any number of appendBit, rank, select, pred
\* and succ for both bit values answer as on the RankVec built from empty
\* with the same bits, whatever bits and counters the shortened vector
\* keeps behind its size.
C28_ShortenedAnswersAsRebuilt ==
  (rv # Unused /\ rvEnv.cut >= 0 /\ RankVec_size(rvOld) = RankVec_size(rv)) =>
     RsQueries(rv) = RsQueries(rvOld)

\* Bits appended across the top-block boundary after a shortening, over
\* bits that were different before.
C28_Witness ==
  /\ rv # Unused /\ rvEnv.cut = BSIZE_T - 2 /\ rvEnv.grown = MaxRsRegrow
  /\ RankVec_size(rvOld) = RankVec_size(rv)
  /\ RankVec_size(rv) > BSIZE_T
  /\ rv.bv.array # rvOld.bv.array

-----------------------------------------------------------------------------
(* SVec, checked under SpecSv: rank_1 at every argument, and the bits of   *)
(* the higher part.                                                        *)

\* The number of elements appended that are <= pos.
SvCountUpTo(pos) == Cardinality({i \in 1..Len(svEnv.a) : svEnv.a[i] <= pos})

\* C27: rank_1(pos) is the number of elements <= pos, for every pos, an
\* element or not: the number of elements for pos >= a[m-1], 0 for
\* pos < a[0].
C27_RankCountsElements ==
  sv # Unused => \A pos \in SvArgs : SVec_rank_1(sv, pos) = SvCountUpTo(pos)

\* C27 where no shift by 64 is made: loW < 64.
C27_RankCountsElements_Below64 ==
  (sv # Unused /\ sv.wbv.w < WordBits) =>
     \A pos \in SvArgs : SVec_rank_1(sv, pos) = SvCountUpTo(pos)

\* C27 on an SVec that was built by append alone.
C27_RankCountsElements_Appended ==
  (sv # Unused /\ ~svEnv.conv) =>
     \A pos \in SvArgs : SVec_rank_1(sv, pos) = SvCountUpTo(pos)

\* C24: the higher part holds as many 1-bits as there are elements, and
\* a[m-1] >> loW 0-bits (none for loW = 64), after every append and after
\* convert.
C24_HigherPartBits ==
  sv # Unused =>
     LET m == Len(svEnv.a)
         ones == RsOnes(sv.rsv, 0, RankVec_size(sv.rsv))
     IN /\ ones = m
        /\ RankVec_size(sv.rsv) - ones
             = (IF m = 0 \/ sv.wbv.w = WordBits THEN 0 ELSE svEnv.a[m] \div Pow2(sv.wbv.w))

\* C24 where no shift by 64 is made: loW < 64.
C24_HigherPartBits_Below64 ==
  (sv # Unused /\ sv.wbv.w < WordBits) =>
     LET m == Len(svEnv.a)
         ones == RsOnes(sv.rsv, 0, RankVec_size(sv.rsv))
     IN /\ ones = m
        /\ RankVec_size(sv.rsv) - ones = (IF m = 0 THEN 0 ELSE svEnv.a[m] \div Pow2(sv.wbv.w))

\* C24 with a[m-1] >> loW read as the build evaluates it (for loW = 64 the
\* shift by 64, whose outcome is the platform's).
C24_HigherPartBits_AsShifted ==
  sv # Unused =>
     LET m == Len(svEnv.a)
         ones == RsOnes(sv.rsv, 0, RankVec_size(sv.rsv))
     IN /\ ones = m
        /\ RankVec_size(sv.rsv) - ones = (IF m = 0 THEN 0 ELSE ShrU(svEnv.a[m], sv.wbv.w))

====
